---- MODULE Spec2Model ----
(***************************************************************************)
(* MOONOCR: layout-to-structure extraction of Japanese invoices.           *)
(*                                                                         *)
(* Two programs are modelled, each from its source file:                   *)
(*   src/scripts/process_invoice.py  process_document, extract_invoice_data*)
(*   src/process_invoice.py          extract_with_easyocr,                 *)
(*                                   parse_japanese_invoice                *)
(*                                                                         *)
(* Representation.                                                         *)
(*  - A text is a sequence of characters, each its Unicode code point      *)
(*    (<<49, 44>> is "1,").  The comment beside a literal gives the text.  *)
(*  - A token is a record [text, left, right, top, bottom, confidence]:    *)
(*    the recognition engine's (bbox, text, confidence) with an            *)
(*    axis-aligned quad, bbox[0] = (left, top), bbox[1] = (right, top),    *)
(*    bbox[2] = (right, bottom), bbox[3] = (left, bottom).  Coordinates    *)
(*    are integers, confidence is in percent (0.6 is 60).                  *)
(*  - Python's None is <<-1>>, which no text is: code points are >= 0.     *)
(*  - Centres and means are rationals in the code.  The model compares     *)
(*    them after clearing denominators, which is exact; the code's         *)
(*    doubles agree with the exact values on integer coordinates,          *)
(*    except where a comparison against a synthesized column anchor is     *)
(*    an exact tie.                                                        *)
(***************************************************************************)
EXTENDS Integers, Sequences, FiniteSets, TLC

VARIABLES
    pc,                 \* which call has returned
    ocr_results,        \* process_document's return value
    invoice_data,       \* extract_invoice_data's return value
    trace,              \* extract_invoice_data's locals at its return
    extracted_text,     \* extract_with_easyocr's return value
    output,             \* parse_japanese_invoice's return value
    parsed,             \* parse_line_items_logic's locals at its return
    clean_input,        \* the argument of the first clean_amount call
    clean_results,      \* the return values of the clean_amount calls, in order
    program,            \* which of the two programs the process runs
    EASY_AVAILABLE,     \* whether "import easyocr" succeeded
    READER,             \* the global READER: None or the engine <<k>>, the k-th constructed
    engines,            \* how many times easyocr.Reader(...) has been constructed
    used,               \* the engines that readtext has been called on
    reader,             \* process_document's local reader, of each thread
    thread_pc,          \* where each thread is in its document
    calls,              \* how many documents each thread has started
    file,               \* the file behind run_extraction's file_path
    reader_raises,      \* whether easyocr.Reader(...) raises in process_document
    result              \* run_extraction's return value

\* the variables of one document's processing
document_vars == <<pc, ocr_results, invoice_data, trace, extracted_text, output, parsed>>

\* the variables of calls of the helper functions on their own
call_vars == <<clean_input, clean_results>>

\* the variables of the recognition engine
engine_vars == <<program, EASY_AVAILABLE, READER, engines, used, reader, thread_pc, calls>>

\* the variables of run_extraction
run_vars == <<file, reader_raises, result>>

\* what the processing of one document, tokens to record, leaves alone
outside_document == <<call_vars, engine_vars, run_vars>>

vars == <<document_vars, call_vars, engine_vars, run_vars>>

None == <<-1>>

(***************************************************************************)
(* Sequences and texts                                                     *)
(***************************************************************************)
Abs(x) == IF x < 0 THEN -x ELSE x

Max(a, b) == IF a >= b THEN a ELSE b

Min(a, b) == IF a <= b THEN a ELSE b

Range(s) == {s[i] : i \in DOMAIN s}

RECURSIVE Concat(_)
Concat(ss) == IF ss = <<>> THEN <<>> ELSE Head(ss) \o Concat(Tail(ss))

\* kw in text
Contains(text, kw) ==
    \E i \in 1..(Len(text) - Len(kw) + 1) : SubSeq(text, i, i + Len(kw) - 1) = kw

\* any(kw in text for kw in kws)
ContainsAny(text, kws) == \E k \in DOMAIN kws : Contains(text, kws[k])

\* text in kws
IsOneOf(text, kws) == \E k \in DOMAIN kws : text = kws[k]

\* str.strip() and the regex class \s: the white space of the texts modelled
Whitespace == {9, 10, 11, 12, 13, 32, 160, 12288}

RECURSIVE LStrip(_)
LStrip(s) == IF s # <<>> /\ Head(s) \in Whitespace THEN LStrip(Tail(s)) ELSE s

RECURSIVE RStrip(_)
RStrip(s) ==
    IF s # <<>> /\ s[Len(s)] \in Whitespace THEN RStrip(SubSeq(s, 1, Len(s) - 1)) ELSE s

Strip(s) == RStrip(LStrip(s))

\* A-Z and the full-width A-Z have their lower case 32 code points on
LowerChar(c) == IF c \in 65..90 \/ c \in 65313..65338 THEN c + 32 ELSE c

\* str.lower()
Lower(s) == [i \in DOMAIN s |-> LowerChar(s[i])]

RECURSIVE Join(_)
\* " ".join(texts)
Join(texts) ==
    IF texts = <<>> THEN <<>>
    ELSE IF Len(texts) = 1 THEN texts[1]
    ELSE texts[1] \o <<32>> \o Join(Tail(texts))

\* s.replace(',', '')
RemoveCommas(s) == SelectSeq(s, LAMBDA c : c # 44)

\* [0-9]
IsAsciiDigit(c) == c \in 48..57

\* \d, and the digits float() reads: 0-9 and the full-width digits
IsDigit(c) == c \in 48..57 \/ c \in 65296..65305

DigitVal(c) == IF c <= 57 THEN c - 48 ELSE c - 65296

RECURSIVE DigitsToNat(_)
DigitsToNat(s) ==
    IF s = <<>> THEN 0 ELSE 10 * DigitsToNat(SubSeq(s, 1, Len(s) - 1)) + DigitVal(s[Len(s)])

RECURSIVE NatToDigits(_)
NatToDigits(n) ==
    IF n < 10 THEN <<48 + n>> ELSE NatToDigits(n \div 10) \o <<48 + (n % 10)>>

RECURSIVE Group3(_)
\* the thousands separators of the format specifier ","
Group3(ds) ==
    IF Len(ds) <= 3 THEN ds
    ELSE Group3(SubSeq(ds, 1, Len(ds) - 3)) \o <<44>> \o SubSeq(ds, Len(ds) - 2, Len(ds))


(***************************************************************************)
(* list.sort(key=...) and sorted(..., key=...): stable, ascending.  keys[i] *)
(* is the key of s[i], a pair compared lexicographically.                  *)
(***************************************************************************)
KeyLess(a, b) == a[1] < b[1] \/ (a[1] = b[1] /\ a[2] < b[2])

StableSort(s, keys) ==
    LET Before(j, i) == KeyLess(keys[j], keys[i]) \/ (keys[j] = keys[i] /\ j < i)
        Rank(i) == Cardinality({j \in DOMAIN s : Before(j, i)}) + 1
    IN  [r \in DOMAIN s |-> s[CHOOSE i \in DOMAIN s : Rank(i) = r]]

(***************************************************************************)
(* Token geometry                                                          *)
(***************************************************************************)
\* (bbox[0][1] + bbox[2][1]) / 2, doubled
YCenter2(t) == t.top + t.bottom

\* (bbox[0][0] + bbox[1][0] + bbox[2][0] + bbox[3][0]) / 4, times 100
XCenter100(t) == 50 * (t.left + t.right)

SortByTop(s) == StableSort(s, [i \in DOMAIN s |-> <<s[i].top, 0>>])

SortByLeft(s) == StableSort(s, [i \in DOMAIN s |-> <<s[i].left, 0>>])

SortByTopLeft(s) == StableSort(s, [i \in DOMAIN s |-> <<s[i].top, s[i].left>>])

RECURSIVE SumYCenter2(_)
SumYCenter2(row) == IF row = <<>> THEN 0 ELSE YCenter2(Head(row)) + SumYCenter2(Tail(row))


(***************************************************************************)
(* float(s) and "{:,.0f}".format(x), on the characters the model uses:     *)
(* float() strips white space and accepts digits with at most one ".",     *)
(* and raises ValueError on anything else.  A parsed number is its integer *)
(* part and the digits of its fraction.                                    *)
(***************************************************************************)
FloatOk(s) ==
    LET t == Strip(s)
    IN  /\ \A i \in DOMAIN t : IsDigit(t[i]) \/ t[i] = 46
        /\ Cardinality({i \in DOMAIN t : t[i] = 46}) <= 1
        /\ \E i \in DOMAIN t : IsDigit(t[i])

Float(s) ==
    LET t == Strip(s)
        dots == {i \in DOMAIN t : t[i] = 46}
        d == IF dots = {} THEN Len(t) + 1 ELSE CHOOSE i \in dots : TRUE
    IN  [int |-> DigitsToNat(SubSeq(t, 1, d - 1)), frac |-> SubSeq(t, d + 1, Len(t))]

\* the fraction against one half: -1 below, 0 equal, 1 above
FracVsHalf(frac) ==
    IF frac = <<>> \/ DigitVal(frac[1]) < 5 THEN -1
    ELSE IF DigitVal(frac[1]) > 5 THEN 1
    ELSE IF \E i \in 2..Len(frac) : DigitVal(frac[i]) # 0 THEN 1
    ELSE 0

\* round-half-even to an integer, as the format specifier ".0f" rounds
RoundHalfEven(x) ==
    LET c == FracVsHalf(x.frac)
    IN  IF c = 1 \/ (c = 0 /\ x.int % 2 = 1) THEN x.int + 1 ELSE x.int

\* "{:,.0f}".format(x)
FormatComma0(x) == Group3(NatToDigits(RoundHalfEven(x)))

(***************************************************************************)
(* src/scripts/process_invoice.py, extract_invoice_data: the line items    *)
(***************************************************************************)
header_keywords_map ==
    << [col |-> "DESCRIPTION",
        keywords |-> << <<21697, 30446, 21517>>,        \* 品目名
                        <<20869, 23481>> >>],             \* 内容
       [col |-> "UNIT PRICE",
        keywords |-> << <<21336, 20385>>,                 \* 単価
                        <<20385, 26684>> >>],             \* 価格
       [col |-> "QUANTITY",
        keywords |-> << <<25968, 37327>>,                 \* 数量
                        <<25968>> >>],                      \* 数
       [col |-> "UNIT",
        keywords |-> << <<21336, 20301>> >>],             \* 単位
       [col |-> "AMOUNT",
        keywords |-> << <<37329, 38989>>,                 \* 金額
                        <<21512, 35336>> >>] >>           \* 合計

col_name_to_output_key ==
    << [col |-> "DESCRIPTION", key |-> "description"],
       [col |-> "UNIT PRICE", key |-> "unit_price"],
       [col |-> "QUANTITY", key |-> "quantity"],
       [col |-> "UNIT", key |-> "unit"],
       [col |-> "AMOUNT", key |-> "amount"] >>

OutputKeys == {"description", "unit_price", "quantity", "unit", "amount"}

OutputKey(col) ==
    col_name_to_output_key[CHOOSE i \in DOMAIN col_name_to_output_key :
                               col_name_to_output_key[i].col = col].key

footer_keywords_lower ==
    << <<23567, 35336>>,            \* 小計
       <<28040, 36027, 31246>>,   \* 消費税
       <<21512, 35336>>,            \* 合計
       <<25391, 36796, 20808>>,   \* 振込先
       <<20633, 32771>> >>          \* 備考

y_threshold_header_row == 15

y_threshold_row == 10

buffer_below_header == 5

horizontal_assignment_tolerance == 100

\* confidence > 0.6, a header keyword
HeaderConfidence == 60

\* confidence > 0.1, a block below the header
BelowHeaderConfidence == 10

\* any(k.lower() in normalized_text for k in keywords)
MatchesColumn(text, entry) ==
    \E k \in DOMAIN entry.keywords :
        Contains(Lower(Strip(text)), Lower(entry.keywords[k]))

\* the column names whose keyword the text contains, in the map's order
ColumnsOf(text) ==
    LET Pick(i) == IF MatchesColumn(text, header_keywords_map[i])
                   THEN <<header_keywords_map[i].col>> ELSE <<>>
    IN  Concat([i \in DOMAIN header_keywords_map |-> Pick(i)])

\* the candidate test without "and confidence > 0.6"
KeywordCandidateAtAnyConfidence(block) == ColumnsOf(block.text) # <<>>

is_header_keyword_candidate(block) ==
    ColumnsOf(block.text) # <<>> /\ block.confidence > HeaderConfidence

RECURSIVE GroupByYMean(_, _, _, _)
(* Both grouping loops: a block joins current_row when its y centre is     *)
(* strictly closer than y_threshold to the mean of the row's y centres,    *)
(* and otherwise closes the row and starts the next.                       *)
GroupByYMean(blocks, rows, current_row, y_threshold) ==
    IF blocks = <<>> THEN (IF current_row # <<>> THEN Append(rows, current_row) ELSE rows)
    ELSE LET b == Head(blocks)
             n == Len(current_row)
         IN  IF current_row = <<>>
             THEN GroupByYMean(Tail(blocks), rows, <<b>>, y_threshold)
             ELSE IF Abs(n * YCenter2(b) - SumYCenter2(current_row)) < 2 * n * y_threshold
             THEN GroupByYMean(Tail(blocks), rows, Append(current_row, b), y_threshold)
             ELSE GroupByYMean(Tail(blocks), Append(rows, current_row), <<b>>, y_threshold)

\* Step 1: the rows of header-keyword blocks
potential_header_rows(results) ==
    GroupByYMean(SelectSeq(SortByTop(results), is_header_keyword_candidate),
                 <<>>, <<>>, y_threshold_header_row)

found_keywords_in_row(row_blocks) ==
    {c \in {header_keywords_map[i].col : i \in DOMAIN header_keywords_map} :
        \E b \in DOMAIN row_blocks : c \in Range(ColumnsOf(row_blocks[b].text))}

RECURSIVE RowBottomY(_)
RowBottomY(row_blocks) ==
    IF row_blocks = <<>> THEN -1
    ELSE Max(RowBottomY(SubSeq(row_blocks, 1, Len(row_blocks) - 1)),
             row_blocks[Len(row_blocks)].bottom)

\* for col_name in keywords matched by the block: (col_name, block)
BlockColumns(block, cols) == [j \in DOMAIN cols |-> [col |-> cols[j], block |-> block]]

\* if col_name not in current_row_bboxes: only a column's first block is kept
FirstOfEachColumn(all) ==
    SelectSeq([i \in DOMAIN all |-> [col |-> all[i].col, block |-> all[i].block, at |-> i]],
              LAMBDA e : \A j \in 1..(e.at - 1) : all[j].col # e.col)

\* current_row_bboxes: each column's first block, in the order the dict got its keys
current_row_bboxes(row_blocks) ==
    FirstOfEachColumn(Concat([b \in DOMAIN row_blocks |->
        BlockColumns(row_blocks[b], ColumnsOf(row_blocks[b].text))]))

\* len(found_keywords_in_row) > max_header_keywords_found
MoreKeywords(i, found, best) == IF found > best[2] THEN <<i, found>> ELSE best

RECURSIVE MainHeaderIndex(_, _, _)
\* the first row with the most distinct keywords (0: no row)
MainHeaderIndex(rows, i, best) ==
    IF i > Len(rows) THEN best[1]
    ELSE MainHeaderIndex(rows, i + 1,
             MoreKeywords(i, Cardinality(found_keywords_in_row(rows[i])), best))

RowAt(rows, m) == IF m = 0 THEN <<>> ELSE rows[m]

\* main_header_row_bboxes is the bboxes of this row, main_header_row_bottom_y its bottom
main_header_row(rows) == RowAt(rows, MainHeaderIndex(rows, 1, <<0, 0>>))

HasAnchor(anchors, col) == \E i \in DOMAIN anchors : anchors[i].col = col

AnchorX(anchors, col) == anchors[CHOOSE i \in DOMAIN anchors : anchors[i].col = col].x

\* x + (amount_x - x) * ratio, ratio in tenths; exact on the model's coordinates
Interpolate(x, amount_x, tenths) == x + ((amount_x - x) * tenths) \div 10

\* UNIT PRICE placed halfway between DESCRIPTION and AMOUNT
UnitPriceAtMidpoint(anchors) ==
    IF HasAnchor(anchors, "UNIT PRICE") THEN anchors
    ELSE Append(anchors, [col |-> "UNIT PRICE",
                          x |-> Interpolate(AnchorX(anchors, "DESCRIPTION"),
                                            AnchorX(anchors, "AMOUNT"), 5)])

SynthUnitPrice(anchors) ==
    IF HasAnchor(anchors, "UNIT PRICE") THEN anchors
    ELSE Append(anchors, [col |-> "UNIT PRICE",
                          x |-> Interpolate(AnchorX(anchors, "DESCRIPTION"),
                                            AnchorX(anchors, "AMOUNT"), 4)])

SynthQuantity(anchors) ==
    IF HasAnchor(anchors, "QUANTITY") THEN anchors
    ELSE Append(anchors, [col |-> "QUANTITY",
                          x |-> Interpolate(AnchorX(anchors, "UNIT PRICE"),
                                            AnchorX(anchors, "AMOUNT"), 4)])

SynthUnit(anchors) ==
    IF HasAnchor(anchors, "UNIT") THEN anchors
    ELSE Append(anchors, [col |-> "UNIT",
                          x |-> Interpolate(AnchorX(anchors, "QUANTITY"),
                                            AnchorX(anchors, "AMOUNT"), 5)])

\* sorted(main_header_row_bboxes.items(), key=lambda item: item[1][0][0])
sorted_main_header_bboxes(bboxes) ==
    StableSort(bboxes, [i \in DOMAIN bboxes |-> <<bboxes[i].block.left, 0>>])

\* header_column_anchors[col_name] = center_x
DetectedAnchors(sorted) ==
    [i \in DOMAIN sorted |-> [col |-> sorted[i].col, x |-> XCenter100(sorted[i].block)]]

\* the missing columns, interpolated when DESCRIPTION and AMOUNT were detected
WithSynthesizedAnchors(detected) ==
    IF HasAnchor(detected, "DESCRIPTION") /\ HasAnchor(detected, "AMOUNT")
    THEN SynthUnit(SynthQuantity(SynthUnitPrice(detected)))
    ELSE detected

\* Step 2: the column anchors of the main header row, x in hundredths, in the dict's order
header_column_anchors(main_row) ==
    WithSynthesizedAnchors(DetectedAnchors(sorted_main_header_bboxes(current_row_bboxes(main_row))))

\* Step 3 taking every block whose top is at the header's bottom plus the buffer or below it
BlocksFromBufferOn(results, main_header_row_bottom_y) ==
    IF main_header_row_bottom_y # -1
    THEN SelectSeq(results,
             LAMBDA b : /\ b.top >= main_header_row_bottom_y + buffer_below_header
                        /\ b.confidence > BelowHeaderConfidence)
    ELSE <<>>

\* Step 3
text_blocks_below_header(results, main_header_row_bottom_y) ==
    IF main_header_row_bottom_y # -1
    THEN SelectSeq(results,
             LAMBDA b : /\ b.top > main_header_row_bottom_y + buffer_below_header
                        /\ b.confidence > BelowHeaderConfidence)
    ELSE <<>>

\* Step 4
ItemRows(blocks_below) == GroupByYMean(SortByTop(blocks_below), <<>>, <<>>, y_threshold_row)

\* abs(block_center_x - anchor_x), in hundredths
AnchorDistance(block, anchor) == Abs(XCenter100(block) - anchor.x)

\* the first anchor, in the dict's order, at the smallest distance
assigned_col_index(block, anchors) ==
    CHOOSE i \in DOMAIN anchors :
        /\ \A j \in DOMAIN anchors : AnchorDistance(block, anchors[i]) <= AnchorDistance(block, anchors[j])
        /\ \A j \in 1..(i - 1) : AnchorDistance(block, anchors[j]) > AnchorDistance(block, anchors[i])

\* the assignment without "min_distance < horizontal_assignment_tolerance"
NearestAtAnyDistance(block, anchor) == OutputKey(anchor.col)

\* if assigned_col and min_distance < horizontal_assignment_tolerance
WithinTolerance(block, anchor) ==
    IF AnchorDistance(block, anchor) < 100 * horizontal_assignment_tolerance
    THEN OutputKey(anchor.col)
    ELSE None

\* the output key the block's text is appended to, or None
AssignedKey(block, anchors) == WithinTolerance(block, anchors[assigned_col_index(block, anchors)])

\* assigned_text_by_column, holding the blocks whose stripped text the code appends
assigned_by_column(row, anchors) ==
    [key \in OutputKeys |-> SelectSeq(row, LAMBDA b : AssignedKey(b, anchors) = key)]

JoinedText(blocks) == Join([i \in DOMAIN blocks |-> Strip(blocks[i].text)])

\* "{:,.0f}".format(float(s)), s unchanged on ValueError or when empty
FormatNumberField(s) == IF s # <<>> /\ FloatOk(s) THEN FormatComma0(Float(s)) ELSE s

\* the item of one row, from its assigned_text_by_column
BuildItem(a) ==
    [description |-> Strip(JoinedText(a["description"])),
     unit_price |-> FormatNumberField(Strip(RemoveCommas(JoinedText(a["unit_price"])))),
     quantity |-> Strip(RemoveCommas(JoinedText(a["quantity"]))),
     unit |-> Strip(JoinedText(a["unit"])),
     amount |-> FormatNumberField(Strip(RemoveCommas(JoinedText(a["amount"]))))]

is_footer_row(item) ==
    \/ IsOneOf(Lower(Strip(item.description)), footer_keywords_lower)
    \/ IsOneOf(Lower(Strip(item.amount)), footer_keywords_lower)
    \/ ContainsAny(Lower(Strip(item.description)), footer_keywords_lower)

\* is_valid_item with the last branch ("just a unit or quantity standalone") accepting
AnyContentIsValid(item) ==
    item.description # <<>> \/ item.amount # <<>> \/ item.unit_price # <<>> \/ item.quantity # <<>>

is_valid_item(item) ==
    IF item.description = <<>> /\ item.amount = <<>> /\ item.unit_price = <<>> /\ item.quantity = <<>>
    THEN FALSE
    ELSE IF item.amount # <<>> THEN FloatOk(RemoveCommas(item.amount))
    ELSE IF item.unit_price # <<>> /\ item.quantity # <<>> THEN FloatOk(RemoveCommas(item.unit_price))
    ELSE IF item.description # <<>>
    THEN ~(item.amount = <<>> /\ item.unit_price = <<>> /\ item.quantity = <<>> /\ item.unit = <<>>)
    ELSE FALSE

\* the verdicts on one row's item
ItemVerdicts(row, assigned, item) ==
    [row |-> row, assigned |-> assigned, item |-> item,
     is_footer_row |-> is_footer_row(item), is_valid_item |-> is_valid_item(item)]

AssignedRow(row, assigned) == ItemVerdicts(row, assigned, BuildItem(assigned))

SortedRow(row, anchors) == AssignedRow(row, assigned_by_column(row, anchors))

\* Step 5, one record a row: the sorted row, its assignment, its item and the verdicts
ProcessRow(row, anchors) == SortedRow(SortByLeft(row), anchors)

ProcessedRows(rows, anchors) ==
    IF anchors # <<>> THEN [i \in DOMAIN rows |-> ProcessRow(rows[i], anchors)] ELSE <<>>

\* is_valid_item and not is_footer_row
Emitted(r) == r.is_valid_item /\ ~r.is_footer_row

ItemsOf(kept) == [i \in DOMAIN kept |-> kept[i].item]

\* invoice_data["line_items"], of the processed rows
line_items(processed) == ItemsOf(SelectSeq(processed, Emitted))


(***************************************************************************)
(* extract_invoice_data: the total amount, searched near a keyword block   *)
(***************************************************************************)
primary_total_keyword_labels ==
    << <<12372, 35531, 27714, 37329, 38989>> >>   \* ご請求金額

secondary_total_keyword_labels ==
    << <<21512, 35336>>,             \* 合計
       <<32207, 21512, 35336>> >>  \* 総合計

\* confidence > 0.7, a total keyword
KeywordConfidence == 70

\* confidence > 0.3, an amount near the primary keyword
PrimaryCandidateConfidence == 30

\* confidence > 0.1, an amount near the secondary keyword
SecondaryCandidateConfidence == 10

\* [¥円半￥＀-￯\s]: U+00A5, U+5186, U+534A, U+FFE5, U+FF00..U+FFEF, white space
PrimaryPrefixChars == {165, 20870, 21322, 65509} \cup (65280..65519) \cup Whitespace

\* [¥円￥＀-￯\s]
SecondaryPrefixChars == {165, 20870, 65509} \cup (65280..65519) \cup Whitespace

\* [\d,\.]
IsNumberChar(c) == IsDigit(c) \/ c = 44 \/ c = 46

\* number_content_pattern.match(text.strip()): ^[prefix]*[\d,\.]+$
number_content_pattern(text, prefix_chars) ==
    LET t == Strip(text)
    IN  \E k \in 0..(Len(t) - 1) :
            /\ \A i \in 1..k : t[i] \in prefix_chars
            /\ \A i \in (k + 1)..Len(t) : IsNumberChar(t[i])

IsPrimaryKeyword(b) ==
    /\ ContainsAny(Lower(Strip(b.text)), primary_total_keyword_labels)
    /\ b.confidence > KeywordConfidence

\* the elif branch: reached only when the primary test failed
IsSecondaryKeyword(b) ==
    /\ ~IsPrimaryKeyword(b)
    /\ ContainsAny(Lower(Strip(b.text)), secondary_total_keyword_labels)
    /\ b.confidence > KeywordConfidence

\* the first block of the highest confidence; blocks is not empty
BestBlock(blocks) ==
    blocks[CHOOSE i \in DOMAIN blocks :
                    /\ \A j \in DOMAIN blocks : blocks[j].confidence <= blocks[i].confidence
                    /\ \A j \in 1..(i - 1) : blocks[j].confidence < blocks[i].confidence]

BestOrNone(blocks) == IF blocks = <<>> THEN <<>> ELSE <<BestBlock(blocks)>>

\* a keyword block is <<>> for None and <<block>> otherwise
primary_keyword_block(results) == BestOrNone(SelectSeq(results, IsPrimaryKeyword))

secondary_keyword_block(results) == BestOrNone(SelectSeq(results, IsSecondaryKeyword))

PrimarySearchArea(kw) ==
    [left |-> kw.right - 30, right |-> kw.right + 800, top |-> kw.top - 30, bottom |-> kw.bottom + 50]

SecondarySearchArea(kw) ==
    [left |-> kw.right - 50, right |-> kw.right + 600, top |-> kw.top - 30, bottom |-> kw.bottom + 50]

horizontal_overlap(b, area) == Max(0, Min(b.right, area.right) - Max(b.left, area.left))

vertical_overlap(b, area) == Max(0, Min(b.bottom, area.bottom) - Max(b.top, area.top))

\* horizontal_overlap > (block_right - block_left) * 0.3 and vertical_overlap > 0
OverlapsSearchArea(b, area) ==
    /\ 10 * horizontal_overlap(b, area) > 3 * (b.right - b.left)
    /\ vertical_overlap(b, area) > 0

\* the candidates without the test of overlap with the search area
PrimaryCandidatesAnywhere(results, area) ==
    SelectSeq(results,
        LAMBDA b : /\ b.confidence > PrimaryCandidateConfidence
                   /\ number_content_pattern(b.text, PrimaryPrefixChars))

PrimaryCandidates(results, area) ==
    SelectSeq(results,
        LAMBDA b : /\ OverlapsSearchArea(b, area)
                   /\ b.confidence > PrimaryCandidateConfidence
                   /\ number_content_pattern(b.text, PrimaryPrefixChars))

SecondaryCandidates(results, area) ==
    SelectSeq(results,
        LAMBDA b : /\ OverlapsSearchArea(b, area)
                   /\ b.confidence > SecondaryCandidateConfidence
                   /\ number_content_pattern(b.text, SecondaryPrefixChars))

(* candidate_amounts.sort(confidence, reverse=True) is stable, so [0] is   *)
(* the first block of the highest confidence.  One record: the block whose *)
(* text becomes total_amount_value, the keyword block and the search area. *)
FoundIn(candidates, keyword, area, by) ==
    IF candidates = <<>> THEN <<>>
    ELSE << [block |-> BestBlock(candidates), keyword |-> keyword, area |-> area, by |-> by] >>

PrimarySearchIn(results, keyword, area) ==
    FoundIn(PrimaryCandidates(results, area), keyword, area, "primary")

SecondarySearchIn(results, keyword, area) ==
    FoundIn(SecondaryCandidates(results, area), keyword, area, "secondary")

PrimarySearch(results, kw) ==
    IF kw = <<>> THEN <<>> ELSE PrimarySearchIn(results, kw[1], PrimarySearchArea(kw[1]))

SecondarySearch(results, kw) ==
    IF kw = <<>> THEN <<>> ELSE SecondarySearchIn(results, kw[1], SecondarySearchArea(kw[1]))

\* the secondary search's candidate taken wherever it has one
SecondaryFirst(primary, secondary) == IF secondary # <<>> THEN secondary ELSE primary

\* if not total_found: the secondary search counts only when the primary found nothing
FirstFound(primary, secondary) == IF primary # <<>> THEN primary ELSE secondary

\* The spatial search: <<>> when neither search has a candidate
TotalSearch(results) ==
    FirstFound(PrimarySearch(results, primary_keyword_block(results)),
               SecondarySearch(results, secondary_keyword_block(results)))

FloatOrDigits(cleaned_amount_str, digits) ==
    IF FloatOk(cleaned_amount_str) THEN Float(cleaned_amount_str)
    ELSE IF digits # <<>> THEN Float(digits)
    ELSE [int |-> 0, frac |-> <<>>]

\* float(cleaned_amount_str), and on ValueError float of its digits, or 0
numerical_amount(cleaned_amount_str) ==
    FloatOrDigits(cleaned_amount_str, SelectSeq(cleaned_amount_str, IsDigit))

\* numerical_amount > 100
ExceedsMinimumTotal(x) ==
    x.int > 100 \/ (x.int = 100 /\ \E i \in DOMAIN x.frac : DigitVal(x.frac[i]) # 0)

FormatTotal(x) == IF ExceedsMinimumTotal(x) THEN FormatComma0(x) ELSE None

\* re.sub(r"[^\d,\.]", "", total_amount_value).replace(",", "").strip()
cleaned_amount_str(total_amount_value) ==
    Strip(RemoveCommas(SelectSeq(total_amount_value, IsNumberChar)))

CleanedTotal(cleaned) == IF cleaned # <<>> THEN FormatTotal(numerical_amount(cleaned)) ELSE None

\* invoice_data["total_amount"], of the spatial search's result
total_amount(search) ==
    IF search = <<>> THEN None ELSE CleanedTotal(cleaned_amount_str(search[1].block.text))


(***************************************************************************)
(* Regular expressions.  Each re.search of the code is written out as the  *)
(* leftmost match its backtracking finds; a match is <<>> for None and     *)
(* <<group(1)>> otherwise.                                                 *)
(***************************************************************************)
MinOf(S) == CHOOSE x \in S : \A y \in S : x <= y

MaxOf(S) == CHOOSE x \in S : \A y \in S : x >= y

\* text[i:].startswith(lit)
StartsWithAt(text, i, lit) ==
    i >= 1 /\ i + Len(lit) - 1 <= Len(text) /\ SubSeq(text, i, i + Len(lit) - 1) = lit

\* the length of the first of lits that text has at i, or 0
AltLenAt(text, i, lits) ==
    IF \E k \in DOMAIN lits : StartsWithAt(text, i, lits[k])
    THEN Len(lits[MinOf({k \in DOMAIN lits : StartsWithAt(text, i, lits[k])})])
    ELSE 0

\* \w among the characters modelled: ASCII and full-width letters and digits, "_",
\* hiragana, katakana (not U+30FB), U+3005, and the CJK ideographs
IsWordChar(c) ==
    \/ c \in 48..57 \/ c \in 65..90 \/ c \in 97..122 \/ c = 95
    \/ c \in 65296..65305 \/ c \in 65313..65338 \/ c \in 65345..65370
    \/ c \in 12353..12438 \/ c \in 12449..12538 \/ c \in 12540..12543 \/ c = 12293
    \/ c \in 13312..19903 \/ c \in 19968..40959

\* [぀-ゟ゠-ヿ一-龯㐀-䶿]
IsJapaneseChar(c) ==
    c \in 12352..12447 \/ c \in 12448..12543 \/ c \in 19968..40879 \/ c \in 13312..19903

InClass(c, cls) ==
    CASE cls = "space" -> c \in Whitespace                                    \* \s
      [] cls = "nonspace" -> c \notin Whitespace                              \* \S
      [] cls = "digit" -> IsDigit(c)                                          \* \d
      [] cls = "word_or_hyphen" -> IsWordChar(c) \/ c = 45                    \* [\w-]
      [] cls = "holder_separator" -> c \in Whitespace \/ c \in {45, 46, 65294, 12539}  \* [\s\-\.．・]
      [] cls = "japanese" -> IsJapaneseChar(c) \/ c \in {12540, 12539}        \* [...ー・]
      [] cls = "not_paren_newline" -> c \notin {40, 10}                       \* [^(\n]
      [] cls = "not_paren_newline_digit" -> c \notin {40, 10} /\ ~IsDigit(c)  \* [^(\n\d]

RECURSIVE RunEnd(_, _, _)
\* the last index of the longest run of cls characters that starts at i (i - 1: none)
RunEnd(text, i, cls) ==
    IF i <= Len(text) /\ InClass(text[i], cls) THEN RunEnd(text, i + 1, cls) ELSE i - 1

\* text[i:j+1] consists of n characters of cls
IsRun(text, i, n, cls) ==
    i + n - 1 <= Len(text) /\ \A k \in i..(i + n - 1) : InClass(text[k], cls)

\* full_text = " ".join([text for (bbox, text, confidence) in ocr_results])
full_text(results) == Join([i \in DOMAIN results |-> results[i].text])

(***************************************************************************)
(* extract_invoice_data: the header fields                                 *)
(***************************************************************************)
\* re.search(r'請求書番号\s*([\w-]+)', full_text)
inv_match(text) ==
    LET label == <<35531, 27714, 26360, 30058, 21495>>      \* 請求書番号
        From(i) == RunEnd(text, i + Len(label), "space") + 1
        hits == {i \in DOMAIN text : /\ StartsWithAt(text, i, label)
                                     /\ RunEnd(text, From(i), "word_or_hyphen") >= From(i)}
    IN  IF hits = {} THEN <<>>
        ELSE <<SubSeq(text, From(MinOf(hits)), RunEnd(text, From(MinOf(hits)), "word_or_hyphen"))>>

\* [/.-]
IsDateSeparator(c) == c \in {47, 46, 45}

\* \d{4}[/.-]\d{2}[/.-]\d{2} at j
NumericDateAt(text, j) ==
    /\ j + 9 <= Len(text)
    /\ IsRun(text, j, 4, "digit") /\ IsDateSeparator(text[j + 4])
    /\ IsRun(text, j + 5, 2, "digit") /\ IsDateSeparator(text[j + 7])
    /\ IsRun(text, j + 8, 2, "digit")

\* re.search(r'請求日\s*(\d{4}[/.-]\d{2}[/.-]\d{2})', full_text)
date_match(text) ==
    LET label == <<35531, 27714, 26085>>                    \* 請求日
        From(i) == RunEnd(text, i + Len(label), "space") + 1
        hits == {i \in DOMAIN text : StartsWithAt(text, i, label) /\ NumericDateAt(text, From(i))}
    IN  IF hits = {} THEN <<>>
        ELSE <<SubSeq(text, From(MinOf(hits)), From(MinOf(hits)) + 9)>>

\* re.sub(r'[-.]', '/', date_str)
StandardizeDate(date_str) ==
    [i \in DOMAIN date_str |-> IF date_str[i] \in {45, 46} THEN 47 ELSE date_str[i]]

\* \d{1,2} and then the character c, at j: the number of digits, or 0
DigitsThen(text, j, c) ==
    IF IsRun(text, j, 2, "digit") /\ j + 2 <= Len(text) /\ text[j + 2] = c THEN 2
    ELSE IF IsRun(text, j, 1, "digit") /\ j + 1 <= Len(text) /\ text[j + 1] = c THEN 1
    ELSE 0

\* \d{4}年\d{1,2}月\d{1,2}日 at j: the index of 日, or 0
KanjiDateEnd(text, j) ==
    IF IsRun(text, j, 4, "digit") /\ j + 4 <= Len(text) /\ text[j + 4] = 24180     \* 年
       /\ DigitsThen(text, j + 5, 26376) > 0                                        \* 月
       /\ DigitsThen(text, j + 5 + DigitsThen(text, j + 5, 26376) + 1, 26085) > 0   \* 日
    THEN j + 5 + DigitsThen(text, j + 5, 26376) + 1
           + DigitsThen(text, j + 5 + DigitsThen(text, j + 5, 26376) + 1, 26085)
    ELSE 0

\* re.search(r'お支払期限\s*(\d{4}年\d{1,2}月\d{1,2}日)', full_text)
payment_due_match(text) ==
    LET label == <<12362, 25903, 25173, 26399, 38480>>      \* お支払期限
        From(i) == RunEnd(text, i + Len(label), "space") + 1
        hits == {i \in DOMAIN text : StartsWithAt(text, i, label) /\ KanjiDateEnd(text, From(i)) > 0}
    IN  IF hits = {} THEN <<>>
        ELSE <<SubSeq(text, From(MinOf(hits)), KanjiDateEnd(text, From(MinOf(hits))))>>


prefectures ==
    << <<26481, 20140, 37117>>,          \* 東京都
       <<22823, 38442, 24220>>,          \* 大阪府
       <<24859, 30693, 30476>>,          \* 愛知県
       <<31070, 22856, 24029, 30476>>,   \* 神奈川県
       <<21271, 28023, 36947>>,          \* 北海道
       <<31119, 23798, 30476>>,          \* 福島県
       <<24195, 23798, 30476>>,          \* 広島県
       <<31119, 23713, 30476>>,          \* 福岡県
       <<20140, 37117, 24220>>,          \* 京都府
       <<21315, 33865, 30476>>,          \* 千葉県
       <<22524, 29577, 30476>>,          \* 埼玉県
       <<20853, 24235, 30476>>,          \* 兵庫県
       <<38745, 23713, 30476>>,          \* 静岡県
       <<33576, 22478, 30476>>,          \* 茨城県
       <<28363, 36032, 30476>>,          \* 滋賀県
       <<22856, 33391, 30476>> >>        \* 奈良県

\* (?:株式会社|有限会社|合同会社|合資会社)
company_types ==
    << <<26666, 24335, 20250, 31038>>,   \* 株式会社
       <<26377, 38480, 20250, 31038>>,   \* 有限会社
       <<21512, 21516, 20250, 31038>>,   \* 合同会社
       <<21512, 36039, 20250, 31038>> >> \* 合資会社

\* (?:株式会社|有限会社|合同会社|合資会社|個人事業主)
company_types_1 == company_types \o << <<20491, 20154, 20107, 26989, 20027>> >>   \* 個人事業主

honorifics ==
    << <<24481, 20013>>,                 \* 御中
       <<27096>> >>                      \* 様

\* 〒\d{3}-\d{4} at p
PostalCodeAt(text, p) ==
    /\ p + 8 <= Len(text) /\ text[p] = 12306
    /\ IsRun(text, p + 1, 3, "digit") /\ text[p + 4] = 45 /\ IsRun(text, p + 5, 4, "digit")

PrefectureEnd(p, len) == IF len > 0 THEN p + len ELSE 0

\* (?:〒\d{3}-\d{4}\s*|東京都|...) at p: the index after it, or 0
AddressPrefixEnd(text, p) ==
    IF PostalCodeAt(text, p) THEN RunEnd(text, p + 9, "space") + 1
    ELSE PrefectureEnd(p, AltLenAt(text, p, prefectures))

MaxOrZero(S) == IF S # {} THEN MaxOf(S) ELSE 0

MaxOrZeroPlus1(S) == IF S # {} THEN MaxOf(S) + 1 ELSE 0

\* r0 follows the company type, r the white space after it
VendorGroupEndAt(text, r0, r) ==
    IF r <= Len(text) /\ InClass(text[r], "not_paren_newline_digit") THEN r
    ELSE MaxOrZero({k \in r0..(r - 1) : text[k] # 10})

VendorGroupEndAfter(text, len, q) ==
    IF len = 0 THEN 0 ELSE VendorGroupEndAt(text, q + len, RunEnd(text, q + len, "space") + 1)

(* ((?:株式会社|...)\s*[^(\n\d]+?)(?:御中|様)? at q: the last index of       *)
(* group(1), or 0.  The lazy class takes one character: the one after the  *)
(* white space, or, when that one is "(", a digit or the end, the last     *)
(* white-space character that is no line feed.                             *)
VendorGroupEnd(text, q) == VendorGroupEndAfter(text, AltLenAt(text, q, company_types_1), q)

\* the starts of group(1) the lazy [^(\n]*? reaches from the end a of an address prefix
VendorGroupStartsFrom(text, a) ==
    {q \in a..Len(text) :
        /\ a > 0
        /\ VendorGroupEnd(text, q) > 0
        /\ \A k \in a..(q - 1) : InClass(text[k], "not_paren_newline")}

VendorGroupStarts(text, p) == VendorGroupStartsFrom(text, AddressPrefixEnd(text, p))

VendorGroupAt(text, q) == <<SubSeq(text, q, VendorGroupEnd(text, q))>>

VendorGroupOf(text, hits) ==
    IF hits = {} THEN <<>> ELSE VendorGroupAt(text, MinOf(VendorGroupStarts(text, MinOf(hits))))

\* vendor_pattern_1
vendor_pattern_1(text) == VendorGroupOf(text, {p \in DOMAIN text : VendorGroupStarts(text, p) # {}})

WithoutHonorific(s, ends) ==
    IF ends = {} THEN s ELSE RStrip(SubSeq(s, 1, Len(s) - Len(honorifics[MinOf(ends)])))

\* re.sub(r'\s*(御中|様)$', '', s)
RemoveTrailingHonorific(s) == WithoutHonorific(s,
    {k \in DOMAIN honorifics : StartsWithAt(s, Len(s) - Len(honorifics[k]) + 1, honorifics[k])})

\* \d{2,4}-\d{2,4}-\d{4} at j
PhoneNumberAt(text, j) ==
    \E a \in 2..4 : \E b \in 2..4 :
        /\ j + a + b + 5 <= Len(text)
        /\ IsRun(text, j, a, "digit") /\ text[j + a] = 45
        /\ IsRun(text, j + a + 1, b, "digit") /\ text[j + a + b + 1] = 45
        /\ IsRun(text, j + a + b + 2, 4, "digit")

\* (?:TEL|電話|FAX|〒|\d{3}-\d{4}|\d{2,4}-\d{2,4}-\d{4}) at j
ContactDetailAt(text, j) ==
    \/ AltLenAt(text, j, << <<84, 69, 76>>, <<38651, 35441>>, <<70, 65, 88>>, <<12306>> >>) > 0
    \/ (j + 7 <= Len(text) /\ IsRun(text, j, 3, "digit") /\ text[j + 3] = 45
            /\ IsRun(text, j + 4, 4, "digit"))
    \/ PhoneNumberAt(text, j)

ContactFollows(text, e, len, with_contact) ==
    IF len = 0 THEN 0
    ELSE IF with_contact => ContactDetailAt(text, RunEnd(text, e + len, "space") + 1) THEN len
    ELSE 0

\* the company type at e, followed by \s* and a contact detail when with_contact: its length, or 0
CompanyTypeAt(text, e, with_contact) ==
    ContactFollows(text, e, AltLenAt(text, e, company_types), with_contact)

\* \S+?(?:株式会社|...) from p: the starts of the company type the lazy \S+? reaches
CompanyTypeStarts(text, p, with_contact) ==
    {e \in (p + 1)..(RunEnd(text, p, "nonspace") + 1) : CompanyTypeAt(text, e, with_contact) > 0}

CompanyGroupAt(text, p, e) == <<SubSeq(text, p, e + AltLenAt(text, e, company_types) - 1)>>

CompanyGroupFrom(text, p, with_contact) ==
    CompanyGroupAt(text, p, MinOf(CompanyTypeStarts(text, p, with_contact)))

CompanyGroupOf(text, hits, with_contact) ==
    IF hits = {} THEN <<>> ELSE CompanyGroupFrom(text, MinOf(hits), with_contact)

\* vendor_pattern_2 (with_contact) and vendor_pattern_3
vendor_pattern_2_3(text, with_contact) ==
    CompanyGroupOf(text, {p \in DOMAIN text : CompanyTypeStarts(text, p, with_contact) # {}},
                   with_contact)

\* match.group(1).strip() of a match
StrippedGroup(m) == IF m = <<>> THEN <<>> ELSE <<Strip(m[1])>>

NameWithoutHonorific(m) == IF m = <<>> THEN <<>> ELSE <<RemoveTrailingHonorific(m[1])>>

\* the vendor name left as "" when no pattern matches
FirstVendorNameOrEmpty(p1, p2, p3) ==
    IF p1 # <<>> /\ p1[1] # <<>> THEN p1[1]
    ELSE IF p2 # <<>> THEN p2[1]
    ELSE IF p3 # <<>> THEN p3[1]
    ELSE <<>>

\* "if not invoice_data['vendor_name']" takes None and "" alike
FirstVendorName(p1, p2, p3) ==
    IF p1 # <<>> /\ p1[1] # <<>> THEN p1[1]
    ELSE IF p2 # <<>> THEN p2[1]
    ELSE IF p3 # <<>> THEN p3[1]
    ELSE IF p1 # <<>> THEN <<>>
    ELSE None

\* invoice_data["vendor_name"]
vendor_name(text) ==
    FirstVendorName(NameWithoutHonorific(StrippedGroup(vendor_pattern_1(text))),
                    StrippedGroup(vendor_pattern_2_3(text, TRUE)),
                    StrippedGroup(vendor_pattern_2_3(text, FALSE)))


(* ---- bank transfer details (regex on the joined text) ---- *)

FirstOccurrence(text, kw, from) ==
    LET at == {i \in from..Len(text) : StartsWithAt(text, i, kw)}
    IN  IF at = {} THEN 0 ELSE MinOf(at)

\* (.*?)(?:備考|$) from: $ is the end, or the place before a last line feed
BlockFrom(text, from) ==
    <<SubSeq(text, from,
             MinOf({e \in from..(Len(text) + 1) :
                       \/ StartsWithAt(text, e, <<20633, 32771>>)              \* 備考
                       \/ e = Len(text) + 1
                       \/ (e = Len(text) /\ text[e] = 10)}) - 1)>>

BlockAfterLabel(text, label) ==
    IF label = 0 THEN <<>> ELSE BlockFrom(text, RunEnd(text, label + 3, "space") + 1)

\* re.search(r'振込先\s*(.*?)(?:備考|$)', full_text, re.DOTALL).group(1), <<>> or <<block>>
bank_details_block_match(text) ==
    BlockAfterLabel(text, FirstOccurrence(text, <<25391, 36796, 20808>>, 1))     \* 振込先

bank_literals ==
    << <<12426, 12381, 12394, 37504, 34892>>,        \* りそな銀行
       <<19977, 20117, 20303, 21451, 37504, 34892>>, \* 三井住友銀行
       <<19977, 33777, 85, 70, 74, 37504, 34892>>,   \* 三菱UFJ銀行
       <<12415, 12378, 12411, 37504, 34892>>,        \* みずほ銀行
       <<12422, 12358, 12385, 12423, 37504, 34892>> >> \* ゆうちょ銀行

\* the literal names first, then .+銀行 with the greedy .+ ending at the line's last 銀行
LiteralOrGreedy(block, p, lit) ==
    IF lit > 0 THEN p + lit - 1
    ELSE MaxOrZeroPlus1({q \in (p + 1)..Len(block) :
                            /\ StartsWithAt(block, q, <<37504, 34892>>)      \* 銀行
                            /\ \A k \in p..(q - 1) : block[k] # 10})

\* (りそな銀行|...|.+銀行) at p: the last index of the match, or 0
BankNameEnd(block, p) == LiteralOrGreedy(block, p, AltLenAt(block, p, bank_literals))

BankNameFrom(block, p) == Strip(SubSeq(block, p, BankNameEnd(block, p)))

BankNameOf(block, hits) == IF hits = {} THEN None ELSE BankNameFrom(block, MinOf(hits))

bank_name_match(block) == BankNameOf(block, {p \in DOMAIN block : BankNameEnd(block, p) > 0})

\* (\S+支店) at p: the last index of the match, or 0
BranchNameEnd(block, p) ==
    MaxOrZeroPlus1({q \in (p + 1)..(RunEnd(block, p, "nonspace") - 1) :
                     StartsWithAt(block, q, <<25903, 24215>>)})              \* 支店

BranchNameFrom(block, p) == Strip(SubSeq(block, p, BranchNameEnd(block, p)))

BranchNameOf(block, hits) == IF hits = {} THEN None ELSE BranchNameFrom(block, MinOf(hits))

branch_name_match(block) == BranchNameOf(block, {p \in DOMAIN block : BranchNameEnd(block, p) > 0})

TwoCharsAt(block, hits) == IF hits = {} THEN None ELSE SubSeq(block, MinOf(hits), MinOf(hits) + 1)

\* (普通|当座)
account_type_match(block) ==
    TwoCharsAt(block, {p \in DOMAIN block :
                          AltLenAt(block, p, << <<26222, 36890>>, <<24403, 24231>> >>) > 0})

\* [\s:\-]?(\d{7})[\s:\-.]? at p: the start of group(1), or 0
AccountNumberStart(block, p) ==
    IF p <= Len(block) /\ (block[p] \in Whitespace \cup {58, 45})
          /\ IsRun(block, p + 1, 7, "digit") THEN p + 1
    ELSE IF IsRun(block, p, 7, "digit") THEN p
    ELSE 0

SevenDigitsAt(block, g) == SubSeq(block, g, g + 6)

AccountNumberOf(block, hits) ==
    IF hits = {} THEN None ELSE SevenDigitsAt(block, AccountNumberStart(block, MinOf(hits)))

account_number_match(block) ==
    AccountNumberOf(block, {p \in DOMAIN block : AccountNumberStart(block, p) > 0})

\* number + [\s\-\.．・]*([...ー・]+): the starts of group(1) after the number at i
AccountHolderStarts(block, number, i) ==
    {g \in (i + Len(number))..(RunEnd(block, i + Len(number), "holder_separator") + 1) :
        /\ StartsWithAt(block, i, number)
        /\ g <= Len(block) /\ InClass(block[g], "japanese")}

JapaneseRunAt(block, g) == Strip(SubSeq(block, g, RunEnd(block, g, "japanese")))

HolderOf(block, number, hits) ==
    IF hits = {} THEN None
    ELSE JapaneseRunAt(block, MaxOf(AccountHolderStarts(block, number, MinOf(hits))))

\* account_holder_match.group(1).strip(), or None
account_holder_match(block, number) ==
    HolderOf(block, number, {i \in DOMAIN block : AccountHolderStarts(block, number, i) # {}})

AccountNumberBoxConfidence == 50
AccountHolderCandidateConfidence == 50

\* text.replace(' ', '')
RemoveSpaces(text) == SelectSeq(text, LAMBDA c : c # 32)

FirstOrNone(blocks) == IF blocks = <<>> THEN <<>> ELSE <<Head(blocks)>>

\* account_number_bbox: the first block holding the number, <<>> or <<block>>
account_number_bbox(results, number) ==
    FirstOrNone(SelectSeq(results, LAMBDA b : /\ Contains(RemoveSpaces(b.text), number)
                                               /\ b.confidence > AccountNumberBoxConfidence))

NameSearchArea(acc) ==
    [left |-> acc.right - 10, right |-> acc.right + 200,
     top |-> acc.top - 5, bottom |-> acc.bottom + 20]

\* japanese_char_pattern.search(text)
HasJapaneseChar(text) ==
    \E i \in DOMAIN text :
        \/ text[i] \in 12352..12447 \/ text[i] \in 12448..12543
        \/ text[i] \in 19968..40879 \/ text[i] \in 13312..19903

candidate_names(results, area) ==
    SelectSeq(results, LAMBDA b :
        /\ 10 * horizontal_overlap(b, area) > 5 * (b.right - b.left)
        /\ vertical_overlap(b, area) > 0
        /\ b.confidence > AccountHolderCandidateConfidence
        /\ HasJapaneseChar(b.text))

\* the sort key of a candidate: (confidence, distance from the number's right edge)
CandidateKey(b, acc) == <<b.confidence, Abs(b.left - acc.right)>>

\* candidate_names.sort(key=(confidence, distance), reverse=True)[0]
best_candidate_name(cands, acc) ==
    cands[MinOf({i \in DOMAIN cands :
                    \A j \in DOMAIN cands :
                        ~KeyLess(CandidateKey(cands[i], acc), CandidateKey(cands[j], acc))})]

BestNameText(cands, acc) ==
    IF cands = <<>> THEN None ELSE Strip(best_candidate_name(cands, acc).text)

\* the spatial search near account_number_bbox (<<>> for None)
HolderNear(results, bbox) ==
    IF bbox = <<>> THEN None
    ELSE BestNameText(candidate_names(results, NameSearchArea(bbox[1])), bbox[1])

RegexOrSpatial(by_regex, by_position) == IF by_regex # None THEN by_regex ELSE by_position

account_holder(results, block, number) ==
    RegexOrSpatial(account_holder_match(block, number),
                   HolderNear(results, account_number_bbox(results, number)))


(***************************************************************************)
(* extract_invoice_data: the returned record                               *)
(***************************************************************************)
bank_details_block(results) == bank_details_block_match(full_text(results))

GroupOrNone(m) == IF m = <<>> THEN None ELSE m[1]

StandardizedGroup(m) == IF m = <<>> THEN <<>> ELSE <<StandardizeDate(m[1])>>

\* the fields read from full_text alone
HeaderFields(text) ==
    [invoice_number |-> GroupOrNone(StrippedGroup(inv_match(text))),
     invoice_date |-> GroupOrNone(StandardizedGroup(date_match(text))),
     due_date |-> GroupOrNone(StrippedGroup(payment_due_match(text))),
     vendor_name |-> vendor_name(text)]

HolderOfNumber(results, block, number) ==
    IF number = None THEN None ELSE account_holder(results, block, number)

BankFieldsOf(results, block, number) ==
    [bank_name |-> bank_name_match(block),
     branch_name |-> branch_name_match(block),
     account_type |-> account_type_match(block),
     account_number |-> number,
     account_holder |-> HolderOfNumber(results, block, number)]

\* the five bank fields read from the whole text, the label there or not
BankFieldsOfWholeText(results, block) ==
    BankFieldsOf(results, full_text(results), account_number_match(full_text(results)))

\* if bank_details_block_match: the five bank fields, None without the block
BankFields(results, block) ==
    IF block = <<>>
    THEN [bank_name |-> None, branch_name |-> None, account_type |-> None,
          account_number |-> None, account_holder |-> None]
    ELSE BankFieldsOf(results, block[1], account_number_match(block[1]))

InvoiceData(header, total, bank, items) ==
    [invoice_number |-> header.invoice_number,
     invoice_date |-> header.invoice_date,
     due_date |-> header.due_date,
     vendor_name |-> header.vendor_name,
     total_amount |-> total,
     bank_name |-> bank.bank_name,
     branch_name |-> bank.branch_name,
     account_type |-> bank.account_type,
     account_number |-> bank.account_number,
     account_holder |-> bank.account_holder,
     line_items |-> items]

LocalsOfAnchors(rows, main, anchors, item_rows, search) ==
    [potential_header_rows |-> rows,
     main_header_row |-> main,
     header_column_anchors |-> anchors,
     rows |-> ProcessedRows(item_rows, anchors),
     total_search |-> search]

LocalsOfMainRow(results, rows, main) ==
    LocalsOfAnchors(rows, main, header_column_anchors(main),
                    ItemRows(text_blocks_below_header(results, RowBottomY(main))),
                    TotalSearch(results))

LocalsOfHeaderRows(results, rows) == LocalsOfMainRow(results, rows, main_header_row(rows))

\* the locals the function holds when it returns
ExtractionLocals(results) == LocalsOfHeaderRows(results, potential_header_rows(results))

\* the returned record, of the locals
InvoiceDataOf(results, locals) ==
    InvoiceData(HeaderFields(full_text(results)),
                total_amount(locals.total_search),
                BankFields(results, bank_details_block(results)),
                line_items(locals.rows))

extract_invoice_data(results) == InvoiceDataOf(results, ExtractionLocals(results))


(***************************************************************************)
(* src/process_invoice.py.  A token is the same record; extract_with_easyocr *)
(* keeps the engine's tokens above its confidence floor, in their order.   *)
(***************************************************************************)
EasyocrConfidence == 50

\* the comprehension of extract_with_easyocr over READER.readtext's results
extract_with_easyocr(results) ==
    SelectSeq(results, LAMBDA t : t.confidence > EasyocrConfidence)

\* return cleaned if cleaned else None
NoneIfEmpty(cleaned) == IF cleaned = <<>> THEN None ELSE cleaned

\* [半#¥￥\s]
IsCurrencyOrSpace(c) == c \in {21322, 35, 165, 65509} \cup Whitespace

\* re.sub(r'[半#¥￥\s]', '', str(amount_str))
WithoutCurrency(s) == SelectSeq(s, LAMBDA c : ~IsCurrencyOrSpace(c))

\* re.sub(r'[^\d,.]', '', cleaned)
NumberCharsOf(s) == SelectSeq(s, IsNumberChar)

\* clean_amount that takes one leading symbol off and leaves the rest
StripLeadingSymbol(amount_str) ==
    IF amount_str = None \/ amount_str = <<>> THEN None
    ELSE NoneIfEmpty(IF IsNumberChar(Head(amount_str)) THEN amount_str ELSE Tail(amount_str))

\* clean_amount: None when the argument or the result is empty
clean_amount(amount_str) ==
    IF amount_str = None \/ amount_str = <<>> THEN None
    ELSE NoneIfEmpty(NumberCharsOf(WithoutCurrency(amount_str)))

skip_terms_general ==
    << <<35531, 27714, 26360, 30058, 21495>>,           \* 請求書番号
       <<35531, 27714, 26085>>,                         \* 請求日
       <<12362, 25903, 25173, 26399, 38480>>,           \* お支払期限
       <<25391, 36796, 20808>>,                         \* 振込先
       <<23567, 35336>>,                                \* 小計
       <<28040, 36027, 31246>>,                         \* 消費税
       <<21512, 35336>>,                                \* 合計
       <<73, 78, 86, 79, 73, 67, 69>>,                  \* INVOICE
       <<84, 69, 76, 58>>,                              \* TEL:
       <<30331, 37682, 30058, 21495>>,                  \* 登録番号
       <<26481, 20140, 37117>>,                         \* 東京都
       <<24481, 20013>>,                                \* 御中
       <<27096>>,                                       \* 様
       <<25285, 24403, 32773>>,                         \* 担当者
       <<20633, 32771>>,                                \* 備考
       <<12426, 12381, 12394, 37504, 34892>>,           \* りそな銀行
       <<31179, 33865, 21407, 25903, 24215>>,           \* 秋葉原支店
       <<26222, 36890>>,                                \* 普通
       <<19979, 35352, 12398, 12392, 12362, 12426>>,    \* 下記のとおり
       <<12372, 35531, 27714, 37329, 38989>>,           \* ご請求金額
       <<24180>>,                                       \* 年
       <<26376>>,                                       \* 月
       <<26085>>,                                       \* 日
       <<28040, 36027, 31246, 23550, 35937>>,           \* 消費税対象
       <<21475, 24231>>,                                \* 口座
       <<37504, 34892>>,                                \* 銀行
       <<25391, 36796, 25163, 25968, 26009>>,           \* 振込手数料
       <<25391, 36796, 20808, 37504, 34892>>,           \* 振込先銀行
       <<25903, 24215>>,                                \* 支店
       <<21475, 24231, 30058, 21495>>,                  \* 口座番号
       <<21475, 24231, 21517, 32681>>,                  \* 口座名義
       <<31246, 25244, 37329, 38989>>,                  \* 税抜金額
       <<31246, 36796, 12415>>,                         \* 税込み
       <<21830, 21697, 12467, 12540, 12489>>,           \* 商品コード
       <<20253, 31080, 30058, 21495>>,                  \* 伝票番号
       <<30058, 21495>> >>                              \* 番号

column_headers ==
    << <<21697, 30446, 21517>>,                         \* 品目名
       <<21830, 21697, 21517>>,                         \* 商品名
       <<12469, 12540, 12499, 12473, 20869, 23481>>,    \* サービス内容
       <<26126, 32048>>,                                \* 明細
       <<21336, 20385>>,                                \* 単価
       <<25968, 37327>>,                                \* 数量
       <<37329, 38989>>,                                \* 金額
       <<21336, 20301>> >>                              \* 単位

noise_symbols ==
    << <<45>>,       \* -
       <<47>>,       \* /
       <<92>>,       \* backslash
       <<124>>,      \* |
       <<61>>,       \* =
       <<95>>,       \* _
       <<46>>,       \* .
       <<58>>,       \* :
       <<59>>,       \* ;
       <<40>>,       \* (
       <<41>>,       \* )
       <<35>>,       \* #
       <<21322>>,    \* 半
       <<165>>,      \* ¥
       <<65509>> >>  \* ￥

\* \d{4}[/-年]\d{1,2}[/-月]?\d{1,2}日? from j, taking a digits for the month,
\* s separator characters and b digits for the day: the last index, or 0.
\* [/-年] is the range U+002F..U+5E74 and [/-月] the range U+002F..U+6708.
DateLikeEndWith(text, j, a, s, b) ==
    LET day == j + 5 + a + s
        last == day + b - 1
    IN  IF /\ IsRun(text, j, 4, "digit")
           /\ j + 4 <= Len(text) /\ text[j + 4] \in 47..24180
           /\ IsRun(text, j + 5, a, "digit")
           /\ (s = 1 => (j + 5 + a <= Len(text) /\ text[j + 5 + a] \in 47..26376))
           /\ IsRun(text, day, b, "digit")
        THEN (IF last + 1 <= Len(text) /\ text[last + 1] = 26085 THEN last + 1 ELSE last)
        ELSE 0

\* re.match(r'^\d{4}[/-年]\d{1,2}[/-月]?\d{1,2}日?$', text)
IsBareDate(text) ==
    \E a \in 1..2 : \E s \in 0..1 : \E b \in 1..2 :
        LET last == 4 + 1 + a + s + b
        IN  /\ DateLikeEndWith(text, 1, a, s, b) > 0
            /\ \/ Len(text) = last
               \/ (Len(text) = last + 1 /\ text[last + 1] = 26085)      \* 日

\* re.match(r'^\d{1,2}:\d{2}$', text)
IsBareTime(text) ==
    \E a \in 1..2 :
        /\ Len(text) = a + 3 /\ IsRun(text, 1, a, "digit")
        /\ text[a + 1] = 58 /\ IsRun(text, a + 2, 2, "digit")

\* lines 125-135: the token is appended to relevant_items
IsRelevantText(text) ==
    /\ ~(Len(text) < 1 \/ IsOneOf(text, noise_symbols))
    /\ ~ContainsAny(text, skip_terms_general)
    /\ ~IsOneOf(text, column_headers)
    /\ ~(IsBareDate(text) \/ IsBareTime(text))

IsRelevant(item) == IsRelevantText(Strip(item.text))

\* relevant_items after relevant_items.sort(key=top)
relevant_items(extracted) == SortByTop(SelectSeq(extracted, IsRelevant))

row_vertical_tolerance == 15

\* the clustering that keeps one row, of the tokens within the tolerance of the last token
LastRowOnly(items, rows) ==
    IF items = <<>> THEN rows
    ELSE <<SelectSeq(items, LAMBDA item :
               Abs(YCenter2(item) - YCenter2(items[Len(items)])) <= 2 * row_vertical_tolerance)>>

RECURSIVE ClusterRows(_, _)
(* lines 143-151: a token joins the last row unless its y centre is more   *)
(* than row_vertical_tolerance away from the mean of the row's y centres   *)
ClusterRows(items, rows) ==
    IF items = <<>> THEN rows
    ELSE LET item == Head(items)
             last == rows[Len(rows)]
             n == Len(last)
         IN  IF rows = <<>>
                \/ Abs(n * YCenter2(item) - SumYCenter2(last)) > 2 * n * row_vertical_tolerance
             THEN ClusterRows(Tail(items), Append(rows, <<item>>))
             ELSE ClusterRows(Tail(items),
                              [rows EXCEPT ![Len(rows)] = Append(last, item)])

SortEachByLeft(rows) == [i \in DOMAIN rows |-> SortByLeft(rows[i])]

\* rows, each after row_items.sort(key=left)
clustered_rows(extracted) == SortEachByLeft(ClusterRows(relevant_items(extracted), <<>>))

unit_words ==
    << <<12497, 12483, 12463>>,    \* パック
       <<107, 103>>,               \* kg
       <<103>>,                    \* g
       <<20491>>,                  \* 個
       <<26412>>,                  \* 本
       <<26522>>,                  \* 枚
       <<12475, 12483, 12488>>,    \* セット
       <<34955>>,                  \* 袋
       <<20870>>,                  \* 円
       <<24335>>,                  \* 式
       <<20214>>,                  \* 件
       <<20491, 21475>> >>         \* 個口

non_description_words ==
    << <<73, 78, 86, 79, 73, 67, 69>>,    \* INVOICE
       <<84, 69, 76>> >>                  \* TEL

\* re.match(r'^[0-9,]+(\.[0-9]+)?$', text)
IsNumberText(text) ==
    \E k \in 1..Len(text) :
        /\ \A i \in 1..k : IsAsciiDigit(text[i]) \/ text[i] = 44
        /\ \/ k = Len(text)
           \/ /\ k + 2 <= Len(text) /\ text[k + 1] = 46
              /\ \A i \in (k + 2)..Len(text) : IsAsciiDigit(text[i])

\* re.match(r'^[0-9\s#¥￥]+$', text)
IsSymbolsOnly(text) ==
    /\ text # <<>>
    /\ \A i \in DOMAIN text :
          IsAsciiDigit(text[i]) \/ text[i] \in Whitespace \/ text[i] \in {35, 165, 65509}

IsUnitText(text) == ~IsNumberText(text) /\ IsOneOf(text, unit_words)

IsDescriptionText(text) ==
    /\ ~IsNumberText(text) /\ ~IsOneOf(text, unit_words)
    /\ ~IsSymbolsOnly(text) /\ ~IsOneOf(text, non_description_words)

\* text = item['text'].strip(), for each item of the row
RowTexts(row_items) == [i \in DOMAIN row_items |-> Strip(row_items[i].text)]

\* numbers_in_row, as the texts
numbers_in_row(row_items) == SelectSeq(RowTexts(row_items), IsNumberText)

LastOrNone(units) == IF units = <<>> THEN None ELSE units[Len(units)]

\* unit: the last unit word of the row, or None
unit_in_row(row_items) == LastOrNone(SelectSeq(RowTexts(row_items), IsUnitText))

\* current_description = ' '.join(description).strip()
current_description(row_items) == Strip(Join(SelectSeq(RowTexts(row_items), IsDescriptionText)))

\* lines 172-175: the row is skipped
IsSkippedRow(description, numbers) ==
    \/ description = <<>> /\ numbers = <<>>
    \/ description = <<>> /\ Len(numbers) < 2

\* cleaned_numbers
cleaned_numbers(numbers) ==
    SelectSeq([i \in DOMAIN numbers |-> clean_amount(numbers[i])], LAMBDA c : c # None)

Floats(parsable) == [i \in DOMAIN parsable |-> Float(RemoveCommas(parsable[i]))]

\* numeric_values: the numbers float() parses, the others passed over
numeric_values(cleaned) == Floats(SelectSeq(cleaned, LAMBDA c : FloatOk(RemoveCommas(c))))

RECURSIVE Pow(_, _)
Pow(b, n) == IF n = 0 THEN 1 ELSE b * Pow(b, n - 1)

Pow10(n) == Pow(10, n)

\* x as the numerator over Pow10(k), k at least the number of its fraction digits
Scaled(x, k) ==
    (x.int * Pow10(Len(x.frac)) + (IF x.frac = <<>> THEN 0 ELSE DigitsToNat(x.frac)))
        * Pow10(k - Len(x.frac))

\* x < y
FloatLess(x, y) ==
    Scaled(x, Max(Len(x.frac), Len(y.frac))) < Scaled(y, Max(Len(x.frac), Len(y.frac)))

IsZero(x) == Scaled(x, Len(x.frac)) = 0

\* lines 193-205; "IndexError" when numeric_values[1] is read and is not there
AssignNumbers(c, v) ==
    IF Len(c) >= 3 THEN [unit_price |-> c[1], quantity |-> c[2], amount |-> c[3], error |-> FALSE]
    ELSE IF Len(c) = 2
    THEN IF v = <<>>
         THEN [unit_price |-> c[1], quantity |-> None, amount |-> c[2], error |-> FALSE]
         ELSE IF Len(v) < 2
         THEN [unit_price |-> None, quantity |-> None, amount |-> None, error |-> TRUE]
         ELSE IF FloatLess(v[1], v[2]) /\ FloatLess(v[1], [int |-> 1000, frac |-> <<>>])
         THEN [unit_price |-> None, quantity |-> c[1], amount |-> c[2], error |-> FALSE]
         ELSE [unit_price |-> c[1], quantity |-> None, amount |-> c[2], error |-> FALSE]
    ELSE IF Len(c) = 1
    THEN [unit_price |-> None, quantity |-> None, amount |-> c[1], error |-> FALSE]
    ELSE [unit_price |-> None, quantity |-> None, amount |-> None, error |-> FALSE]


(* Doubles.  The model computes on the exact rationals.  A number read     *)
(* from a numeral is a double exactly when it is a dyadic rational; a      *)
(* quotient or product of doubles is rounded to the nearest double.  On    *)
(* the bounded numerals modelled the rounding is seen in two places only:  *)
(* a quotient of inexact operands may miss the integer it equals, and a    *)
(* value halfway between two 2-decimal (or 0-decimal) results falls to the *)
(* side its double lies on.  fp is that side: "exact", "below" or "above". *)
FloatingPoint == {"exact", "below", "above"}

\* the double holds the numeral's value exactly
IsDyadic(x) == DigitsToNat(x.frac) % Pow(5, Len(x.frac)) = 0

\* the value floor + rem/den cut to floor
RoundDown(floor, rem, den, exact, fp) == floor

\* the rounding of a value floor + rem/den to floor or floor + 1
RoundAt(floor, rem, den, exact, fp) ==
    IF 2 * rem < den THEN floor
    ELSE IF 2 * rem > den THEN floor + 1
    ELSE IF exact \/ fp = "exact" THEN (IF floor % 2 = 0 THEN floor ELSE floor + 1)
    ELSE IF fp = "below" THEN floor
    ELSE floor + 1

\* f"{x:,.2f}" of x in hundredths
FormatHundredths(hundredths) ==
    Group3(NatToDigits(hundredths \div 100))
        \o <<46, 48 + ((hundredths % 100) \div 10), 48 + (hundredths % 10)>>

\* an / qn, both over one power of ten
FormatRatio(an, qn, exact_operands, fp) ==
    IF an % qn = 0 /\ (exact_operands \/ fp = "exact")
    THEN Group3(NatToDigits(an \div qn))
    ELSE FormatHundredths(RoundAt((100 * an) \div qn, (100 * an) % qn, qn,
                                  exact_operands /\ (2 * ((100 * an) \div qn) + 1) % 25 = 0, fp))

\* f"{int(x):,}" if x.is_integer() else f"{x:,.2f}", for x = a / q
FormatQuotient(a, q, fp) ==
    FormatRatio(Scaled(a, Max(Len(a.frac), Len(q.frac))), Scaled(q, Max(Len(a.frac), Len(q.frac))),
                IsDyadic(a) /\ IsDyadic(q), fp)

FormatRounded(num, den, exact_operands, fp) ==
    Group3(NatToDigits(RoundAt(num \div den, num % den, den, exact_operands, fp)))

\* f"{qty * u_price:,.0f}"
FormatProduct(q, u, fp) ==
    FormatRounded(Scaled(q, Len(q.frac)) * Scaled(u, Len(u.frac)),
                  Pow10(Len(q.frac) + Len(u.frac)), IsDyadic(q) /\ IsDyadic(u), fp)

\* float(s.replace(',', '')) raises ValueError
RaisesValueError(s) == s # None /\ ~FloatOk(RemoveCommas(s))

\* float(s.replace(',', '')) if s else None: <<>> for None
OptionalFloat(s) == IF s = None THEN <<>> ELSE <<Float(RemoveCommas(s))>>

\* the truth of an optional float: not None and not 0.0
Truthy(x) == x # <<>> /\ ~IsZero(x[1])

\* lines 211-219
ReconcileFloats(item, qty, u_price, amt, fp) ==
    IF Truthy(qty) /\ Truthy(u_price) /\ amt = <<>>
    THEN [item EXCEPT !.amount = FormatProduct(qty[1], u_price[1], fp)]
    ELSE IF Truthy(qty) /\ Truthy(amt) /\ u_price = <<>>
    THEN [item EXCEPT !.unit_price = FormatQuotient(amt[1], qty[1], fp)]
    ELSE IF Truthy(u_price) /\ Truthy(amt) /\ qty = <<>>
    THEN [item EXCEPT !.quantity = FormatQuotient(amt[1], u_price[1], fp)]
    ELSE item

\* lines 207-221 on the item the assignment left
Reconcile(item, fp) ==
    IF RaisesValueError(item.quantity) \/ RaisesValueError(item.unit_price)
          \/ RaisesValueError(item.amount)
    THEN item
    ELSE ReconcileFloats(item, OptionalFloat(item.quantity), OptionalFloat(item.unit_price),
                         OptionalFloat(item.amount), fp)

\* line 223
IsEmitted(item) ==
    /\ item.description # <<>>
    /\ (item.amount # None \/ item.unit_price # None \/ item.quantity # None)

\* one row's locals when its iteration ends
RowLocals(row_items, numbers, skipped, error, assigned, line_item) ==
    [row_items |-> row_items,
     numbers_in_row |-> numbers,
     skipped |-> skipped,
     error |-> ~skipped /\ error,
     assigned |-> assigned,
     line_item |-> line_item,
     emitted |-> ~skipped /\ ~error /\ IsEmitted(line_item)]

ReconciledRow(row_items, numbers, skipped, error, assigned, fp) ==
    RowLocals(row_items, numbers, skipped, error, assigned, Reconcile(assigned, fp))

\* line_item after lines 193-205
AssignedItem(description, unit, assigned) ==
    [description |-> description,
     unit_price |-> assigned.unit_price,
     quantity |-> assigned.quantity,
     unit |-> unit,
     amount |-> assigned.amount]

ParseAssigned(row_items, description, numbers, unit, assigned, fp) ==
    ReconciledRow(row_items, numbers, IsSkippedRow(description, numbers), assigned.error,
                  AssignedItem(description, unit, assigned), fp)

AssignCleaned(cleaned) == AssignNumbers(cleaned, numeric_values(cleaned))

\* one row of the loop of lines 153-224
ParseRow(row_items, fp) ==
    ParseAssigned(row_items, current_description(row_items), numbers_in_row(row_items),
                  unit_in_row(row_items),
                  AssignCleaned(cleaned_numbers(numbers_in_row(row_items))), fp)

ParseRows(rows, fp) == [i \in DOMAIN rows |-> ParseRow(rows[i], fp)]

parsed_rows(extracted, fp) == ParseRows(clustered_rows(extracted), fp)

LineItemsOf(kept) == [i \in DOMAIN kept |-> kept[i].line_item]

\* the items of the rows, and [] when a row raises (lines 267-271)
ItemsOfRows(rows) ==
    IF \E i \in DOMAIN rows : rows[i].error THEN <<>>
    ELSE LineItemsOf(SelectSeq(rows, LAMBDA r : r.emitted))

\* parse_line_items_logic(), and [] when it raises
parse_line_items_logic(extracted, fp) == ItemsOfRows(parsed_rows(extracted, fp))


(***************************************************************************)
(* parse_japanese_invoice: the header fields, patterns in their order      *)
(***************************************************************************)
all_text(extracted) == Join([i \in DOMAIN extracted |-> extracted[i].text])

\* [A-Za-z0-9\-]
IsCodeChar(c) == c \in 65..90 \/ c \in 97..122 \/ c \in 48..57 \/ c = 45

RECURSIVE CodeRunEnd(_, _)
CodeRunEnd(text, i) ==
    IF i <= Len(text) /\ IsCodeChar(text[i]) THEN CodeRunEnd(text, i + 1) ELSE i - 1

\* the index after an optional character of chars at i
SkipOne(text, i, chars) == IF i <= Len(text) /\ text[i] \in chars THEN i + 1 ELSE i

SkipSpaces(text, i) == RunEnd(text, i, "space") + 1

\* the leftmost p of hits, with the group the pattern captures from it
LeftmostGroup(text, hits, start, last) ==
    IF hits = {} THEN <<>> ELSE <<SubSeq(text, start[MinOf(hits)], last[MinOf(hits)])>>

\* (\d{8}-\d+)
invoice_number_pattern_1(text) ==
    LET hits == {p \in DOMAIN text :
                    /\ IsRun(text, p, 8, "digit") /\ p + 9 <= Len(text) /\ text[p + 8] = 45
                    /\ IsDigit(text[p + 9])}
    IN  LeftmostGroup(text, hits, [p \in DOMAIN text |-> p],
                      [p \in DOMAIN text |-> RunEnd(text, p + 9, "digit")])

\* (?:請求書|INVOICE)\s*No\.?[:：]?\s*([A-Za-z0-9\-]+): the start of the group, or 0
InvoiceNoGroupStart(text, p) ==
    LET label == AltLenAt(text, p, << <<35531, 27714, 26360>>,                 \* 請求書
                                      <<73, 78, 86, 79, 73, 67, 69>> >>)      \* INVOICE
        no == SkipSpaces(text, p + label)
        g == SkipSpaces(text, SkipOne(text, SkipOne(text, no + 2, {46}), {58, 65306}))
    IN  IF label > 0 /\ StartsWithAt(text, no, <<78, 111>>)                     \* No
           /\ g <= Len(text) /\ IsCodeChar(text[g])
        THEN g ELSE 0

invoice_number_pattern_2(text) ==
    LeftmostGroup(text, {p \in DOMAIN text : InvoiceNoGroupStart(text, p) > 0},
                  [p \in DOMAIN text |-> InvoiceNoGroupStart(text, p)],
                  [p \in DOMAIN text |-> CodeRunEnd(text, InvoiceNoGroupStart(text, p))])

\* 請求\s*書\s*番号[:：]?\s*([A-Za-z0-9\-]+): the start of the group, or 0
InvoiceNumberGroupStart(text, p) ==
    LET sho == SkipSpaces(text, p + 2)
        bango == SkipSpaces(text, sho + 1)
        g == SkipSpaces(text, SkipOne(text, bango + 2, {58, 65306}))
    IN  IF StartsWithAt(text, p, <<35531, 27714>>)                              \* 請求
           /\ StartsWithAt(text, sho, <<26360>>)                                \* 書
           /\ StartsWithAt(text, bango, <<30058, 21495>>)                       \* 番号
           /\ g <= Len(text) /\ IsCodeChar(text[g])
        THEN g ELSE 0

invoice_number_pattern_3(text) ==
    LeftmostGroup(text, {p \in DOMAIN text : InvoiceNumberGroupStart(text, p) > 0},
                  [p \in DOMAIN text |-> InvoiceNumberGroupStart(text, p)],
                  [p \in DOMAIN text |-> CodeRunEnd(text, InvoiceNumberGroupStart(text, p))])

\* the month, separator and day lengths in the order the greedy quantifiers try them
DateLikeChoices ==
    << <<2, 1, 2>>, <<2, 1, 1>>, <<2, 0, 2>>, <<2, 0, 1>>,
       <<1, 1, 2>>, <<1, 1, 1>>, <<1, 0, 2>>, <<1, 0, 1>> >>

\* (\d{4}[/-年]\d{1,2}[/-月]?\d{1,2}日?) from j: the last index, or 0
DateLikeEnd(text, j) ==
    LET ok == {c \in DOMAIN DateLikeChoices :
                  DateLikeEndWith(text, j, DateLikeChoices[c][1], DateLikeChoices[c][2],
                                  DateLikeChoices[c][3]) > 0}
        c == DateLikeChoices[MinOf(ok)]
    IN  IF ok = {} THEN 0 ELSE DateLikeEndWith(text, j, c[1], c[2], c[3])

\* label[:：]?\s*(date-like), label one of labels: the start of the group, or 0
LabelledDateStart(text, p, labels) ==
    LET g == SkipSpaces(text, SkipOne(text, p + AltLenAt(text, p, labels), {58, 65306}))
    IN  IF AltLenAt(text, p, labels) > 0 /\ DateLikeEnd(text, g) > 0 THEN g ELSE 0

labelled_date_pattern(text, labels) ==
    LeftmostGroup(text, {p \in DOMAIN text : LabelledDateStart(text, p, labels) > 0},
                  [p \in DOMAIN text |-> LabelledDateStart(text, p, labels)],
                  [p \in DOMAIN text |-> DateLikeEnd(text, LabelledDateStart(text, p, labels))])

invoice_date_labels ==
    << <<35531, 27714, 26085>>,                  \* 請求日
       <<30330, 34892, 26085>> >>                \* 発行日

\* (?:お?支払期限|支払期限|支払期日)
due_date_labels ==
    << <<12362, 25903, 25173, 26399, 38480>>,    \* お支払期限
       <<25903, 25173, 26399, 38480>>,           \* 支払期限
       <<25903, 25173, 26399, 26085>> >>         \* 支払期日

\* \d{4}/\d{1,2}/\d{1,2} from p: the last index, or 0
SlashDateEnd(text, p) ==
    LET m == p + 5
        a == IF IsRun(text, m, 2, "digit") /\ m + 2 <= Len(text) /\ text[m + 2] = 47 THEN 2
             ELSE IF IsRun(text, m, 1, "digit") /\ m + 1 <= Len(text) /\ text[m + 1] = 47 THEN 1
             ELSE 0
        d == m + a + 1
    IN  IF IsRun(text, p, 4, "digit") /\ p + 4 <= Len(text) /\ text[p + 4] = 47 /\ a > 0
        THEN (IF IsRun(text, d, 2, "digit") THEN d + 1
              ELSE IF IsRun(text, d, 1, "digit") THEN d
              ELSE 0)
        ELSE 0

\* (\d{4}/\d{1,2}/\d{1,2})
invoice_date_pattern_2(text) ==
    LeftmostGroup(text, {p \in DOMAIN text : SlashDateEnd(text, p) > 0},
                  [p \in DOMAIN text |-> p],
                  [p \in DOMAIN text |-> SlashDateEnd(text, p)])

\* label\s+(\d{4}年\d{1,2}月\d{1,2}日): the start of the group, or 0
SpacedKanjiDateStart(text, p) ==
    LET e == p + AltLenAt(text, p, due_date_labels)
        g == SkipSpaces(text, e)
    IN  IF AltLenAt(text, p, due_date_labels) > 0 /\ g > e /\ KanjiDateEnd(text, g) > 0
        THEN g ELSE 0

due_date_pattern_2(text) ==
    LeftmostGroup(text, {p \in DOMAIN text : SpacedKanjiDateStart(text, p) > 0},
                  [p \in DOMAIN text |-> SpacedKanjiDateStart(text, p)],
                  [p \in DOMAIN text |-> KanjiDateEnd(text, SpacedKanjiDateStart(text, p))])


\* the suffix of the vendor pattern k at q: the last index, or 0
VendorSuffixEnd(text, q, k) ==
    LET Lit(lit) == IF StartsWithAt(text, q, lit) THEN q + Len(lit) - 1 ELSE 0
        Dotted(lit) == IF StartsWithAt(text, q, lit)
                       THEN SkipOne(text, q + Len(lit), {46}) - 1 ELSE 0
        ltd == SkipOne(text, SkipOne(text, SkipOne(text, q + 2, {46}), {44}), {32})
    IN  CASE k = 1 -> Lit(<<26666, 24335, 20250, 31038>>)        \* 株式会社
          [] k = 2 -> Lit(<<21512, 21516, 20250, 31038>>)        \* 合同会社
          [] k = 3 -> Lit(<<20250, 31038>>)                      \* 会社
          [] k = 4 -> Dotted(<<67, 111, 114, 112>>)              \* Corp\.?
          [] k = 5 -> Dotted(<<76, 116, 100>>)                   \* Ltd\.?
          [] k = 6 -> IF StartsWithAt(text, q, <<67, 111>>)      \* Co\.?,? ?Ltd\.?
                         /\ StartsWithAt(text, ltd, <<76, 116, 100>>)
                      THEN SkipOne(text, ltd + 3, {46}) - 1 ELSE 0
          [] k = 7 -> Lit(<<12469, 12540, 12499, 12473>>)        \* サービス

\* ([^\s]+ suffix) from p: where the greedy run leaves the suffix, or 0
VendorSuffixStart(text, p, k) ==
    LET qs == {q \in (p + 1)..RunEnd(text, p, "nonspace") : VendorSuffixEnd(text, q, k) > 0}
    IN  IF qs = {} THEN 0 ELSE MaxOf(qs)

fast_vendor_pattern(text, k) ==
    LeftmostGroup(text, {p \in DOMAIN text : VendorSuffixStart(text, p, k) > 0},
                  [p \in DOMAIN text |-> p],
                  [p \in DOMAIN text |-> VendorSuffixEnd(text, VendorSuffixStart(text, p, k), k)])

\* [\d,]
IsDigitOrComma(c) == IsDigit(c) \/ c = 44

RECURSIVE DigitCommaRunEnd(_, _)
DigitCommaRunEnd(text, i) ==
    IF i <= Len(text) /\ IsDigitOrComma(text[i]) THEN DigitCommaRunEnd(text, i + 1) ELSE i - 1

\* ([\d,]+(?:.\d{1,2})?) from g, greedy: the last index (g - 1: no match)
AmountGroupEnd(text, g) ==
    LET r == DigitCommaRunEnd(text, g)
    IN  IF r < g THEN r
        ELSE IF r + 2 <= Len(text) /\ text[r + 1] # 10 /\ IsDigit(text[r + 2])
        THEN (IF r + 3 <= Len(text) /\ IsDigit(text[r + 3]) THEN r + 3 ELSE r + 2)
        ELSE r

total_labels ==
    << <<21512, 35336>>,                         \* 合計
       <<12372, 35531, 27714, 37329, 38989>>,    \* ご請求金額
       <<32207, 38989>> >>                       \* 総額

\* (?:合計|ご請求金額|総額)[:：]?\s*[¥￥半#]?\s*(...): the start of the group, or 0
LabelledAmountStart(text, p) ==
    LET g == SkipSpaces(text, SkipOne(text,
                 SkipSpaces(text, SkipOne(text, p + AltLenAt(text, p, total_labels), {58, 65306})),
                 {165, 65509, 21322, 35}))
    IN  IF AltLenAt(text, p, total_labels) > 0 /\ g <= Len(text) /\ IsDigitOrComma(text[g])
        THEN g ELSE 0

total_amount_pattern_1(text) ==
    LeftmostGroup(text, {p \in DOMAIN text : LabelledAmountStart(text, p) > 0},
                  [p \in DOMAIN text |-> LabelledAmountStart(text, p)],
                  [p \in DOMAIN text |-> AmountGroupEnd(text, LabelledAmountStart(text, p))])

\* [¥￥#]?\s*(?:合計|ご請求金額|総額)?\s*(...): the start of the group, or 0
AnyAmountStart(text, p) ==
    LET l == SkipSpaces(text, SkipOne(text, p, {165, 65509, 35}))
        g == SkipSpaces(text, l + AltLenAt(text, l, total_labels))
    IN  IF g <= Len(text) /\ IsDigitOrComma(text[g]) THEN g ELSE 0

total_amount_pattern_2(text) ==
    LeftmostGroup(text, {p \in DOMAIN text : AnyAmountStart(text, p) > 0},
                  [p \in DOMAIN text |-> AnyAmountStart(text, p)],
                  [p \in DOMAIN text |-> AmountGroupEnd(text, AnyAmountStart(text, p))])

\* the indexes after [\d,]+(?:.\d{1,2})? from g, wherever the quantifiers stop
AmountEndsFrom(text, g) ==
    {e \in (g + 1)..(Len(text) + 1) :
        \E r \in g..DigitCommaRunEnd(text, g) :
            \/ e = r + 1
            \/ \E n \in 1..2 : /\ e = r + 2 + n /\ text[r + 1] # 10
                               /\ IsRun(text, r + 2, n, "digit")}

\* the indexes of label that amount\s* from g leads to
LabelsAfterAmount(text, g, label) ==
    {t \in DOMAIN text :
        /\ StartsWithAt(text, t, label)
        /\ \E e \in AmountEndsFrom(text, g) : e <= t /\ IsRun(text, e, t - e, "space")}

\* 小計\s*amount\s*消費税\s*amount\s*合計\s*(...): the start of the group, or 0
SubtotalTaxTotalStart(text, p) ==
    LET taxes == LabelsAfterAmount(text, SkipSpaces(text, p + 2),
                                   <<28040, 36027, 31246>>)                    \* 消費税
        totals == UNION {LabelsAfterAmount(text, SkipSpaces(text, t + 3),
                                           <<21512, 35336>>) : t \in taxes}     \* 合計
        g == SkipSpaces(text, MinOf(totals) + 2)
    IN  IF StartsWithAt(text, p, <<23567, 35336>>)                             \* 小計
           /\ totals # {} /\ g <= Len(text) /\ IsDigitOrComma(text[g])
        THEN g ELSE 0

total_amount_pattern_3(text) ==
    LeftmostGroup(text, {p \in DOMAIN text : SubtotalTaxTotalStart(text, p) > 0},
                  [p \in DOMAIN text |-> SubtotalTaxTotalStart(text, p)],
                  [p \in DOMAIN text |-> AmountGroupEnd(text, SubtotalTaxTotalStart(text, p))])


\* the first of the matches that is not <<>>, or <<>>
FirstMatch(matches) ==
    IF \A i \in DOMAIN matches : matches[i] = <<>> THEN <<>>
    ELSE matches[MinOf({i \in DOMAIN matches : matches[i] # <<>>})]

\* the loop of lines 248-258 for one field: match.group(...).strip(), or None
PatternValue(matches) == GroupOrNone(StrippedGroup(FirstMatch(matches)))

pattern_invoice_number(text) ==
    PatternValue(<<invoice_number_pattern_1(text), invoice_number_pattern_2(text),
                   invoice_number_pattern_3(text)>>)

pattern_invoice_date(text) ==
    PatternValue(<<labelled_date_pattern(text, invoice_date_labels), invoice_date_pattern_2(text)>>)

pattern_due_date(text) ==
    PatternValue(<<labelled_date_pattern(text, due_date_labels), due_date_pattern_2(text)>>)

pattern_vendor_name(text) ==
    PatternValue([k \in 1..7 |-> fast_vendor_pattern(text, k)])

pattern_total_amount(text) ==
    clean_amount(PatternValue(<<total_amount_pattern_1(text), total_amount_pattern_2(text),
                                total_amount_pattern_3(text)>>))

RECURSIVE date_matches(_, _), DateAt(_, _, _), DatesFrom(_, _)
\* re.findall(r'(\d{4}[/-年]\d{1,2}[/-月]?\d{1,2}日?)', all_text), scanning from pos
date_matches(text, pos) == DatesFrom(text, {p \in pos..Len(text) : DateLikeEnd(text, p) > 0})

DateAt(text, p, last) == <<SubSeq(text, p, last)>> \o date_matches(text, last + 1)

DatesFrom(text, hits) ==
    IF hits = {} THEN <<>> ELSE DateAt(text, MinOf(hits), DateLikeEnd(text, MinOf(hits)))

\* "not output[field]": None or the empty text
IsUnset(value) == value = None \/ value = <<>>

\* lines 260-265, on the two dates the patterns gave and the dates found in the text
FallbackDates(invoice_date, due_date, dates) ==
    [invoice_date |->
        IF (IsUnset(invoice_date) \/ IsUnset(due_date)) /\ Len(dates) >= 1 /\ IsUnset(invoice_date)
        THEN dates[1] ELSE invoice_date,
     due_date |->
        IF (IsUnset(invoice_date) \/ IsUnset(due_date)) /\ Len(dates) >= 2 /\ IsUnset(due_date)
        THEN dates[2] ELSE due_date]

fallback_dates(text) ==
    FallbackDates(pattern_invoice_date(text), pattern_due_date(text), date_matches(text, 1))

fallback_invoice_date(text) == fallback_dates(text).invoice_date

fallback_due_date(text) == fallback_dates(text).due_date

Output(invoice_number, dates, vendor, total, items) ==
    [invoice_number |-> invoice_number,
     invoice_date |-> dates.invoice_date,
     due_date |-> dates.due_date,
     vendor_name |-> vendor,
     total_amount |-> total,
     line_items |-> items]

\* the output, of all_text and the line items
OutputOfText(text, items) ==
    Output(pattern_invoice_number(text), fallback_dates(text), pattern_vendor_name(text),
           pattern_total_amount(text), items)

\* parse_japanese_invoice's return value
parse_japanese_invoice(extracted, fp) ==
    OutputOfText(all_text(extracted), parse_line_items_logic(extracted, fp))


(***************************************************************************)
(* The state machine.  process_document reads the engine's tokens and      *)
(* sorts them; extract_invoice_data works on its return value.  In the     *)
(* other program extract_with_easyocr reads the tokens and                 *)
(* parse_japanese_invoice works on its return value.  The engine's output  *)
(* is the input: any list of distinct tokens of a set, up to a length.     *)
(***************************************************************************)
Tok(text, left, right, top, bottom, confidence) ==
    [text |-> text, left |-> left, right |-> right, top |-> top, bottom |-> bottom,
     confidence |-> confidence]

\* READER.readtext(...): the lists of at most n distinct tokens of the set
TokenLists(tokens, n) ==
    UNION {{s \in [1..k -> tokens] : \A i, j \in 1..k : i # j => s[i] # s[j]} : k \in 0..n}

\* no document has been read
NoDocument ==
    /\ pc = "start"
    /\ ocr_results = <<>>
    /\ invoice_data = <<>>
    /\ trace = <<>>
    /\ extracted_text = <<>>
    /\ output = <<>>
    /\ parsed = <<>>

\* no helper function has been called on its own
NoCall ==
    /\ clean_input = None
    /\ clean_results = <<>>

MaxThreads == 2

Threads == 1..MaxThreads

\* no engine has been constructed: READER = None (line 30), and no thread has started
NoEngine ==
    /\ READER = None
    /\ engines = 0
    /\ used = {}
    /\ reader = [t \in Threads |-> None]
    /\ thread_pc = [t \in Threads |-> "idle"]
    /\ calls = [t \in Threads |-> 0]

\* a file that is there and can be read, with one page
ReadableFile == [extension |-> <<46, 112, 100, 102>>, exists |-> TRUE, pages |-> 1]    \* .pdf

\* run_extraction has not returned
Pending == [status |-> "pending"]

\* run_extraction has been called on a readable file, and the engine can be constructed
NoRun ==
    /\ file = ReadableFile
    /\ reader_raises = FALSE
    /\ result = Pending

\* the process whose documents are followed token by token: its engine is up
Init ==
    /\ NoDocument /\ NoCall /\ NoEngine /\ NoRun
    /\ program = "document"
    /\ EASY_AVAILABLE = TRUE

\* process_document: all_ocr_results.sort(key=(top, left)), then return
ProcessDocument(tokens, n) ==
    /\ pc = "start"
    /\ \E results \in TokenLists(tokens, n) : ocr_results' = SortByTopLeft(results)
    /\ pc' = "ocr"
    /\ UNCHANGED <<invoice_data, trace, extracted_text, output, parsed>>
    /\ UNCHANGED outside_document

\* run_extraction: extracted_data = extract_invoice_data(ocr_results)
ExtractInvoiceData ==
    /\ pc = "ocr"
    /\ trace' = ExtractionLocals(ocr_results)
    /\ invoice_data' = InvoiceDataOf(ocr_results, trace')
    /\ pc' = "extracted"
    /\ UNCHANGED <<ocr_results, extracted_text, output, parsed>>
    /\ UNCHANGED outside_document

\* process_japanese_invoice_fast: extracted_data = extract_with_easyocr(...)
ExtractWithEasyocr(tokens, n) ==
    /\ pc = "start"
    /\ \E results \in TokenLists(tokens, n) : extracted_text' = extract_with_easyocr(results)
    /\ pc' = "easy"
    /\ UNCHANGED <<ocr_results, invoice_data, trace, output, parsed>>
    /\ UNCHANGED outside_document

\* process_japanese_invoice_fast: "if not extracted_data: ... return None"
NoTextExtracted ==
    /\ pc = "easy"
    /\ extracted_text = <<>>
    /\ output' = None
    /\ pc' = "failed"
    /\ UNCHANGED <<ocr_results, invoice_data, trace, extracted_text, parsed>>
    /\ UNCHANGED outside_document

\* process_japanese_invoice_fast: result = parse_japanese_invoice(extracted_data)
ParseJapaneseInvoice ==
    /\ pc = "easy"
    /\ extracted_text # <<>>
    /\ \E fp \in FloatingPoint :
          /\ parsed' = parsed_rows(extracted_text, fp)
          /\ output' = OutputOfText(all_text(extracted_text), ItemsOfRows(parsed'))
    /\ pc' = "parsed"
    /\ UNCHANGED <<ocr_results, invoice_data, trace, extracted_text>>
    /\ UNCHANGED outside_document

(***************************************************************************)
(* Tables: a header row 品目名 ... 金額 with the anchors 100 and 500 (and   *)
(* the synthesized 260, 356, 428), one data row, tokens of low confidence, *)
(* a footer word in the quantity column and tokens beside the table.       *)
(***************************************************************************)
MaxTableTokens == 4

TableTokens ==
    { Tok(<<21697, 30446, 21517>>, 80, 120, 0, 20, 90),        \* 品目名
      Tok(<<37329, 38989>>, 480, 520, 0, 20, 90),              \* 金額
      Tok(<<21697, 30446, 21517>>, 80, 120, 0, 20, 55),        \* 品目名, low confidence
      Tok(<<37329, 38989>>, 480, 520, 0, 20, 55),              \* 金額, low confidence
      Tok(<<12522, 12531, 12468>>, 90, 130, 30, 50, 90),       \* リンゴ
      Tok(<<49, 44, 48, 48, 48>>, 470, 510, 30, 50, 90),       \* 1,000
      Tok(<<53, 48, 48>>, 470, 510, 30, 50, 55),               \* 500, low confidence
      Tok(<<23567, 35336>>, 330, 370, 30, 50, 90),             \* 小計
      Tok(<<28168>>, 580, 620, 30, 50, 90),                    \* 済, 100 right of 金額
      Tok(<<12513, 12514>>, 680, 720, 30, 50, 90) }            \* メモ, 200 right of 金額

NextTable == ProcessDocument(TableTokens, MaxTableTokens) \/ ExtractInvoiceData

SpecTable == Init /\ [][NextTable]_vars

(***************************************************************************)
(* Totals: a table whose amounts sum to 1,250,000, the keyword ご請求金額  *)
(* with the window 170..1000 by 70..170, the keyword 合計 with the window  *)
(* 90..740 by 270..370, and numbers inside, across the edge of and outside *)
(* the windows.                                                            *)
(***************************************************************************)
MaxTotalTokens == 5

TotalTokens ==
    { Tok(<<21697, 30446, 21517>>, 80, 120, 0, 20, 90),                    \* 品目名
      Tok(<<37329, 38989>>, 480, 520, 0, 20, 90),                          \* 金額
      Tok(<<49, 44, 50, 53, 48, 44, 48, 48, 48>>, 450, 530, 30, 50, 90),   \* 1,250,000
      Tok(<<12372, 35531, 27714, 37329, 38989>>, 100, 200, 100, 120, 90),  \* ご請求金額
      Tok(<<49, 50, 53, 44, 48, 48, 48>>, 700, 780, 100, 120, 60),         \* 125,000, inside
      Tok(<<55, 55, 44, 48, 48, 48>>, 150, 190, 100, 120, 95),             \* 77,000, across the edge
      Tok(<<57, 57, 57, 44, 57, 57, 57>>, 700, 780, 200, 220, 99),         \* 999,999, outside
      Tok(<<21512, 35336>>, 100, 140, 300, 320, 90),                       \* 合計
      Tok(<<56, 56, 44, 48, 48, 48>>, 300, 380, 300, 320, 40) }            \* 88,000, inside

NextTotal == ProcessDocument(TotalTokens, MaxTotalTokens) \/ ExtractInvoiceData

SpecTotal == Init /\ [][NextTotal]_vars

(***************************************************************************)
(* Items, for both programs: the header row, a description, a unit price,  *)
(* a quantity, a unit and an amount under their anchors, and a quantity    *)
(* alone on a second row.                                                  *)
(***************************************************************************)
MaxItemTokens == 4

ItemTokens ==
    { Tok(<<21697, 30446, 21517>>, 80, 120, 0, 20, 90),        \* 品目名
      Tok(<<37329, 38989>>, 480, 520, 0, 20, 90),              \* 金額
      Tok(<<12522, 12531, 12468>>, 90, 130, 30, 50, 90),       \* リンゴ
      Tok(<<53, 48, 48>>, 240, 280, 30, 50, 90),               \* 500
      Tok(<<50>>, 336, 376, 30, 50, 90),                       \* 2
      Tok(<<20491>>, 408, 448, 30, 50, 90),                    \* 個
      Tok(<<49, 44, 48, 48, 48>>, 470, 510, 30, 50, 90),       \* 1,000
      Tok(<<51>>, 336, 376, 60, 80, 90) }                      \* 3, alone on a second row

NextItems ==
    \/ ProcessDocument(ItemTokens, MaxItemTokens)
    \/ ExtractInvoiceData
    \/ ExtractWithEasyocr(ItemTokens, MaxItemTokens)
    \/ NoTextExtracted
    \/ ParseJapaneseInvoice

SpecItems == Init /\ [][NextItems]_vars

(***************************************************************************)
(* Rows, for both programs: a header and three tokens of one top and one   *)
(* left edge with the y centres 35, 52 and 44, and a token further down.   *)
(***************************************************************************)
MaxRowTokens == 4

RowTokens ==
    { Tok(<<37329, 38989>>, 480, 520, 0, 20, 90),              \* 金額
      Tok(<<12522, 12531, 12468>>, 470, 510, 30, 40, 90),      \* リンゴ, y centre 35
      Tok(<<49, 44, 48, 48, 48>>, 470, 510, 30, 74, 90),       \* 1,000, y centre 52
      Tok(<<50>>, 470, 510, 30, 58, 90),                       \* 2, y centre 44
      Tok(<<12415, 12363, 12435>>, 470, 510, 100, 120, 90) }   \* みかん

NextRows ==
    \/ ProcessDocument(RowTokens, MaxRowTokens)
    \/ ExtractInvoiceData
    \/ ExtractWithEasyocr(RowTokens, MaxRowTokens)
    \/ NoTextExtracted
    \/ ParseJapaneseInvoice

SpecRows == Init /\ [][NextRows]_vars

(***************************************************************************)
(* Reconciliation: a description and numbers on one row, left to right.    *)
(***************************************************************************)
MaxReconcileTokens == 3

ReconcileTokens ==
    { Tok(<<12522, 12531, 12468>>, 90, 130, 30, 50, 90),       \* リンゴ
      Tok(<<51>>, 200, 220, 30, 50, 90),                       \* 3
      Tok(<<48, 46, 53>>, 230, 250, 30, 50, 90),               \* 0.5
      Tok(<<51, 48, 48>>, 260, 280, 30, 50, 90),               \* 300
      Tok(<<49, 53, 48, 48>>, 300, 340, 30, 50, 90),           \* 1500
      Tok(<<48>>, 360, 380, 30, 50, 90),                       \* 0
      Tok(<<49, 44, 48, 48, 48>>, 470, 510, 30, 50, 90),       \* 1,000
      Tok(<<49, 44, 50, 48, 48>>, 470, 510, 30, 50, 40) }      \* 1,200, low confidence

NextReconcile ==
    \/ ExtractWithEasyocr(ReconcileTokens, MaxReconcileTokens)
    \/ NoTextExtracted
    \/ ParseJapaneseInvoice

SpecReconcile == Init /\ [][NextReconcile]_vars

(***************************************************************************)
(* clean_amount on its own: called on a string, then on what it returned.  *)
(***************************************************************************)
MaxAmountLen == 3

\* 1, full-width 1, the comma, the point, the yen sign, 半, 円, a space, a letter
AmountChars == {49, 65297, 44, 46, 165, 21322, 20870, 32, 97}

AmountStrings == UNION {[1..k -> AmountChars] : k \in 0..MaxAmountLen}

InitClean ==
    /\ NoDocument /\ NoEngine /\ NoRun
    /\ program = "clean_amount"
    /\ EASY_AVAILABLE = TRUE
    /\ clean_input \in AmountStrings
    /\ clean_results = <<>>

\* clean_amount(x), then clean_amount of the value returned
CleanAmount ==
    /\ Len(clean_results) < 2
    /\ clean_results' = Append(clean_results,
                               clean_amount(IF clean_results = <<>> THEN clean_input
                                            ELSE clean_results[Len(clean_results)]))
    /\ UNCHANGED <<clean_input, document_vars, engine_vars, run_vars>>

SpecClean == InitClean /\ [][CleanAmount]_vars

(***************************************************************************)
(* Header fields in the text: an invoice number behind its label and one   *)
(* without a label, dates with slashes and with kanji, a date and an       *)
(* amount behind their labels.                                             *)
(***************************************************************************)
MaxHeaderTokens == 3

HeaderTokens ==
    { Tok(<<35531, 27714, 26360, 30058, 21495, 58, 65, 66, 45, 49>>,
          100, 300, 0, 20, 90),                                 \* 請求書番号:AB-1
      Tok(<<49, 50, 51, 52, 53, 54, 55, 56, 45, 57>>, 100, 300, 30, 50, 90),      \* 12345678-9
      Tok(<<50, 48, 50, 52, 47, 48, 51, 47, 48, 49>>, 100, 300, 60, 80, 90),      \* 2024/03/01
      Tok(<<50, 48, 50, 52, 47, 48, 49, 47, 48, 53>>, 100, 300, 90, 110, 90),     \* 2024/01/05
      Tok(<<50, 48, 50, 52, 24180, 51, 26376, 49, 26085>>, 100, 300, 120, 140, 90), \* 2024年3月1日
      Tok(<<50, 48, 50, 52, 24180, 49, 26376, 53, 26085>>, 100, 300, 150, 170, 90), \* 2024年1月5日
      Tok(<<35531, 27714, 26085, 58, 50, 48, 50, 52, 47, 48, 50, 47, 49, 48>>,
          100, 300, 180, 200, 90),                              \* 請求日:2024/02/10
      Tok(<<21512, 35336, 32, 49, 44, 48, 48, 48>>, 100, 300, 210, 230, 90) }     \* 合計 1,000

NextHeader ==
    \/ ExtractWithEasyocr(HeaderTokens, MaxHeaderTokens)
    \/ NoTextExtracted
    \/ ParseJapaneseInvoice

SpecHeader == Init /\ [][NextHeader]_vars

(***************************************************************************)
(* The recognition engine.  A process runs one of the two programs; its    *)
(* threads each process documents, one after another.  In                  *)
(* src/process_invoice.py a document starts with initialize_ocr(), whose   *)
(* test of READER and whose assignment to READER are two steps with the    *)
(* construction of the engine between them, and goes on to                 *)
(* READER.readtext.  In src/scripts/process_invoice.py process_document    *)
(* constructs its reader and calls readtext on it.  The engine <<k>> is    *)
(* the k-th one constructed in the process.                                *)
(***************************************************************************)
MaxCalls == 2

InitEngine ==
    /\ NoDocument /\ NoCall /\ NoEngine /\ NoRun
    /\ program \in {"fast", "scripts"}
    /\ EASY_AVAILABLE \in BOOLEAN

\* initialize_ocr: "if READER is None and EASY_AVAILABLE"
InitializeOcrTest(t) ==
    /\ program = "fast"
    /\ thread_pc[t] = "idle"
    /\ calls[t] < MaxCalls
    /\ calls' = [calls EXCEPT ![t] = @ + 1]
    /\ thread_pc' = [thread_pc EXCEPT ![t] =
                        IF READER = None /\ EASY_AVAILABLE THEN "construct" ELSE "initialized"]
    /\ UNCHANGED <<program, EASY_AVAILABLE, READER, engines, used, reader, document_vars, call_vars, run_vars>>

\* initialize_ocr: READER = easyocr.Reader(['ja', 'en'], ...)
InitializeOcrConstruct(t) ==
    /\ program = "fast"
    /\ thread_pc[t] = "construct"
    /\ engines' = engines + 1
    /\ READER' = <<engines + 1>>
    /\ thread_pc' = [thread_pc EXCEPT ![t] = "initialized"]
    /\ UNCHANGED <<program, EASY_AVAILABLE, used, reader, calls, document_vars, call_vars, run_vars>>

\* extract_with_easyocr: None without the engine, READER.readtext(...) with it
Readtext(t) ==
    /\ program = "fast"
    /\ thread_pc[t] = "initialized"
    /\ used' = IF ~EASY_AVAILABLE \/ READER = None THEN used ELSE used \cup {READER}
    /\ thread_pc' = [thread_pc EXCEPT ![t] = "idle"]
    /\ UNCHANGED <<program, EASY_AVAILABLE, READER, engines, reader, calls, document_vars, call_vars, run_vars>>

\* process_document: reader = easyocr.Reader(['en', 'ja'], gpu=True)
ProcessDocumentReader(t) ==
    /\ program = "scripts"
    /\ thread_pc[t] = "idle"
    /\ calls[t] < MaxCalls
    /\ calls' = [calls EXCEPT ![t] = @ + 1]
    /\ engines' = engines + 1
    /\ reader' = [reader EXCEPT ![t] = <<engines + 1>>]
    /\ thread_pc' = [thread_pc EXCEPT ![t] = "reader"]
    /\ UNCHANGED <<program, EASY_AVAILABLE, READER, used, document_vars, call_vars, run_vars>>

\* process_document: results = reader.readtext(...), on the reader of this call
ProcessDocumentReadtext(t) ==
    /\ program = "scripts"
    /\ thread_pc[t] = "reader"
    /\ used' = used \cup {reader[t]}
    /\ thread_pc' = [thread_pc EXCEPT ![t] = "idle"]
    /\ UNCHANGED <<program, EASY_AVAILABLE, READER, engines, reader, calls, document_vars, call_vars, run_vars>>

NextEngine ==
    \E t \in Threads :
        \/ InitializeOcrTest(t)
        \/ InitializeOcrConstruct(t)
        \/ Readtext(t)
        \/ ProcessDocumentReader(t)
        \/ ProcessDocumentReadtext(t)

SpecEngine == InitEngine /\ [][NextEngine]_vars

(***************************************************************************)
(* run_extraction of src/scripts/process_invoice.py on a file: the file    *)
(* may be missing, of an extension the program does not read, or a PDF     *)
(* without pages, and the construction of the engine may raise.            *)
(***************************************************************************)
MaxPages == 2

MaxRunTokens == 2

Extensions ==
    { <<46, 112, 100, 102>>,          \* .pdf
      <<46, 80, 78, 71>>,             \* .PNG
      <<46, 116, 120, 116>> }         \* .txt

image_extensions ==
    << <<46, 112, 110, 103>>, <<46, 106, 112, 103>>, <<46, 106, 112, 101, 103>>,    \* .png .jpg .jpeg
       <<46, 116, 105, 102, 102>>, <<46, 98, 109, 112>> >>                          \* .tiff .bmp

Files == [extension : Extensions, exists : BOOLEAN, pages : 0..MaxPages]

RunTokens ==
    { Tok(<<35531, 27714, 26360, 30058, 21495, 32, 65, 45, 49>>, 100, 300, 0, 20, 90),   \* 請求書番号 A-1
      Tok(<<12372, 35531, 27714, 37329, 38989>>, 100, 200, 100, 120, 90),            \* ご請求金額
      Tok(<<49, 44, 48, 48, 48>>, 300, 380, 100, 120, 90) }                          \* 1,000

InitRun ==
    /\ NoDocument /\ NoCall /\ NoEngine
    /\ program = "scripts"
    /\ EASY_AVAILABLE = TRUE
    /\ file \in Files
    /\ reader_raises \in BOOLEAN
    /\ result = Pending

IsPdf(f) == Lower(f.extension) = <<46, 112, 100, 102>>

IsImage(f) == IsOneOf(Lower(f.extension), image_extensions)

\* the images process_document has of the file: None where it returns None
\* from the conversion or the loading, else their number
images(f) ==
    IF IsPdf(f) THEN (IF f.exists THEN <<f.pages>> ELSE None)
    ELSE IF IsImage(f) THEN (IF f.exists THEN <<1>> ELSE None)
    ELSE None

\* process_document returns None
ReturnsNone(f, raises) == raises \/ images(f) = None \/ images(f) = <<0>>

\* process_document(file_path): None, or the sorted results of its pages; pc is
\* "none" where it returned None
ProcessDocumentFile ==
    /\ pc = "start"
    /\ result = Pending
    /\ IF ReturnsNone(file, reader_raises)
       THEN /\ ocr_results' = None
            /\ pc' = "none"
       ELSE /\ \E results \in TokenLists(RunTokens, MaxRunTokens) :
                  ocr_results' = SortByTopLeft(results)
            /\ pc' = "ocr"
    /\ engines' = IF reader_raises THEN engines ELSE engines + 1
    /\ UNCHANGED <<invoice_data, trace, extracted_text, output, parsed, call_vars, run_vars,
                   program, EASY_AVAILABLE, READER, used, reader, thread_pc, calls>>

\* run_extraction's return value when process_document returned None
ErrorResult(f) ==
    [status |-> "error", message |-> "Failed to process document through OCR.",
     file_path |-> f.extension]

SuccessResult(f, data) ==
    [status |-> "success", message |-> "Document processed successfully.",
     file_path |-> f.extension, invoice_data |-> data]

\* run_extraction, from the return of process_document on
RunExtraction ==
    /\ pc \in {"ocr", "none"}
    /\ result = Pending
    /\ IF pc = "none"
       THEN /\ result' = ErrorResult(file)
            /\ pc' = "failed"
            /\ UNCHANGED <<invoice_data, trace>>
       ELSE /\ trace' = ExtractionLocals(ocr_results)
            /\ invoice_data' = InvoiceDataOf(ocr_results, trace')
            /\ result' = SuccessResult(file, invoice_data')
            /\ pc' = "extracted"
    /\ UNCHANGED <<ocr_results, extracted_text, output, parsed, call_vars, engine_vars,
                   file, reader_raises>>

NextRun == ProcessDocumentFile \/ RunExtraction

SpecRun == InitRun /\ [][NextRun]_vars

(***************************************************************************)
(* The token filter: on one row a description, an amount, a boilerplate    *)
(* term, a column header, a noise symbol, a time, and a date written with  *)
(* slashes and with hyphens.                                               *)
(***************************************************************************)
MaxFilterTokens == 3

FilterTokens ==
    { Tok(<<12522, 12531, 12468>>, 20, 60, 30, 50, 90),                          \* リンゴ
      Tok(<<50, 48, 50, 52, 45, 48, 49, 45, 48, 53>>, 90, 130, 30, 50, 90),      \* 2024-01-05
      Tok(<<50, 48, 50, 52, 47, 48, 49, 47, 48, 53>>, 140, 180, 30, 50, 90),     \* 2024/01/05
      Tok(<<49, 50, 58, 51, 48>>, 190, 230, 30, 50, 90),                         \* 12:30
      Tok(<<23567, 35336>>, 240, 280, 30, 50, 90),                               \* 小計
      Tok(<<21697, 30446, 21517>>, 290, 330, 30, 50, 90),                        \* 品目名
      Tok(<<45>>, 340, 380, 30, 50, 90),                                         \* -
      Tok(<<49, 44, 48, 48, 48>>, 470, 510, 30, 50, 90) }                        \* 1,000

NextFilter ==
    \/ ExtractWithEasyocr(FilterTokens, MaxFilterTokens)
    \/ NoTextExtracted
    \/ ParseJapaneseInvoice

SpecFilter == Init /\ [][NextFilter]_vars

(***************************************************************************)
(* Row clustering at the tolerance, for both programs: a header, tokens    *)
(* with the y centres 35, 45 and 50, and a token further down.             *)
(***************************************************************************)
MaxClusterTokens == 4

ClusterTokens ==
    { Tok(<<37329, 38989>>, 480, 520, 0, 20, 90),              \* 金額
      Tok(<<12522, 12531, 12468>>, 20, 60, 30, 40, 90),        \* リンゴ, y centre 35
      Tok(<<49, 44, 48, 48, 48>>, 470, 510, 35, 55, 90),       \* 1,000, y centre 45
      Tok(<<50>>, 300, 340, 40, 60, 90),                       \* 2, y centre 50
      Tok(<<12415, 12363, 12435>>, 20, 60, 100, 120, 90) }     \* みかん

NextCluster ==
    \/ ProcessDocument(ClusterTokens, MaxClusterTokens)
    \/ ExtractInvoiceData
    \/ ExtractWithEasyocr(ClusterTokens, MaxClusterTokens)
    \/ NoTextExtracted
    \/ ParseJapaneseInvoice

SpecCluster == Init /\ [][NextCluster]_vars

(***************************************************************************)
(* The account holder: the bank-detail label, the account number, three    *)
(* names above the number's line within its window, two of one confidence  *)
(* and one of less, and a name after the number on its line.               *)
(***************************************************************************)
MaxBankTokens == 4

BankTokens ==
    { Tok(<<25391, 36796, 20808>>, 0, 60, 0, 20, 90),                     \* 振込先
      Tok(<<49, 50, 51, 52, 53, 54, 55>>, 100, 170, 30, 50, 90),          \* 1234567
      Tok(<<12516, 12510, 12480>>, 175, 225, 28, 48, 90),                 \* ヤマダ, 5 from the right edge
      Tok(<<12469, 12488, 12454>>, 300, 350, 28, 48, 90),                 \* サトウ, 130 from it
      Tok(<<12473, 12474, 12461>>, 180, 230, 28, 48, 80),                 \* スズキ, 10 from it
      Tok(<<12479, 12490, 12459>>, 240, 290, 30, 50, 90) }                \* タナカ, after the number

NextBank == ProcessDocument(BankTokens, MaxBankTokens) \/ ExtractInvoiceData

SpecBank == Init /\ [][NextBank]_vars

(***************************************************************************)
(* Anchors: the five column headers on one line with the centres 100, 200, *)
(* 300, 400 and 500, a second description header right of the amount with  *)
(* the centre 700, and a token below the line.                             *)
(***************************************************************************)
MaxAnchorTokens == 4

AnchorTokens ==
    { Tok(<<21697, 30446, 21517>>, 80, 120, 0, 20, 90),        \* 品目名
      Tok(<<21336, 20385>>, 180, 220, 0, 20, 90),              \* 単価
      Tok(<<25968, 37327>>, 280, 320, 0, 20, 90),              \* 数量
      Tok(<<21336, 20301>>, 380, 420, 0, 20, 90),              \* 単位
      Tok(<<37329, 38989>>, 480, 520, 0, 20, 90),              \* 金額
      Tok(<<20869, 23481>>, 680, 720, 0, 20, 90),              \* 内容
      Tok(<<12522, 12531, 12468>>, 90, 130, 30, 50, 90) }      \* リンゴ

NextAnchors == ProcessDocument(AnchorTokens, MaxAnchorTokens) \/ ExtractInvoiceData

SpecAnchors == Init /\ [][NextAnchors]_vars

(***************************************************************************)
(* Below the header: the header row 品目名 ... 金額 with the bottom 20, a   *)
(* word beside it on its line, a description and an amount with the top 25, *)
(* the header's bottom plus the buffer, and the same with the top 26.      *)
(***************************************************************************)
MaxBelowTokens == 4

BelowTokens ==
    { Tok(<<21697, 30446, 21517>>, 80, 120, 0, 20, 90),        \* 品目名
      Tok(<<37329, 38989>>, 480, 520, 0, 20, 90),              \* 金額
      Tok(<<12513, 12514>>, 130, 170, 0, 20, 90),              \* メモ, on the header's line
      Tok(<<12522, 12531, 12468>>, 90, 130, 25, 45, 90),       \* リンゴ, top 25
      Tok(<<50, 44, 48, 48, 48>>, 470, 510, 25, 45, 90),       \* 2,000, top 25
      Tok(<<12415, 12363, 12435>>, 90, 130, 26, 46, 90),       \* みかん, top 26
      Tok(<<49, 44, 48, 48, 48>>, 470, 510, 26, 46, 90) }      \* 1,000, top 26

NextBelow == ProcessDocument(BelowTokens, MaxBelowTokens) \/ ExtractInvoiceData

SpecBelow == Init /\ [][NextBelow]_vars

(***************************************************************************)
(* Numbers that are none: a description with a comma alone, a zero, a      *)
(* quantity and an amount on its row, and a second row further down.       *)
(***************************************************************************)
MaxNumericTokens == 3

NumericTokens ==
    { Tok(<<12522, 12531, 12468>>, 90, 130, 30, 50, 90),       \* リンゴ
      Tok(<<44>>, 200, 220, 30, 50, 90),                       \* , alone
      Tok(<<48>>, 230, 250, 30, 50, 90),                       \* 0
      Tok(<<51>>, 260, 280, 30, 50, 90),                       \* 3
      Tok(<<49, 48, 48, 48>>, 470, 510, 30, 50, 90),           \* 1000
      Tok(<<12415, 12363, 12435>>, 90, 130, 100, 120, 90),     \* みかん
      Tok(<<53, 48, 48>>, 470, 510, 100, 120, 90) }            \* 500

NextNumeric ==
    \/ ExtractWithEasyocr(NumericTokens, MaxNumericTokens)
    \/ NoTextExtracted
    \/ ParseJapaneseInvoice

SpecNumeric == Init /\ [][NextNumeric]_vars

(***************************************************************************)
(* clean_amount on long numbers: an optional yen sign, leading digits and  *)
(* groups of three digits with and without their comma.                    *)
(***************************************************************************)
MaxGroups == 2

LeadingDigits == {<<>>, <<49>>, <<50>>, <<49, 50>>}                        \* "", 1, 2, 12

DigitGroups == {<<44, 50, 51, 52>>, <<44, 48, 48, 48>>, <<53, 54, 55>>}     \* ,234  ,000  567

GroupedNumbers ==
    {Concat(groups) : groups \in UNION {[1..k -> DigitGroups] : k \in 0..MaxGroups}}

LongAmountStrings ==
    {sign \o lead \o number :
        sign \in {<<>>, <<165>>}, lead \in LeadingDigits, number \in GroupedNumbers}

InitLongAmount ==
    /\ NoDocument /\ NoEngine /\ NoRun
    /\ program = "clean_amount"
    /\ EASY_AVAILABLE = TRUE
    /\ clean_input \in LongAmountStrings
    /\ clean_results = <<>>

SpecLongAmount == InitLongAmount /\ [][CleanAmount]_vars

(***************************************************************************)
(* Bank details with and without their label: the label, a bank, a branch  *)
(* with the account type, the account number, a name above the number's    *)
(* line and a name after the number.                                       *)
(***************************************************************************)
MaxTransferTokens == 4

TransferTokens ==
    { Tok(<<25391, 36796, 20808>>, 0, 60, 0, 20, 90),                              \* 振込先
      Tok(<<12415, 12378, 12411, 37504, 34892>>, 70, 170, 0, 20, 90),              \* みずほ銀行
      Tok(<<31179, 33865, 21407, 25903, 24215>>, 180, 280, 0, 20, 90),             \* 秋葉原支店
      Tok(<<26222, 36890>>, 290, 330, 0, 20, 90),                                  \* 普通
      Tok(<<49, 50, 51, 52, 53, 54, 55>>, 100, 170, 30, 50, 90),                   \* 1234567
      Tok(<<12516, 12510, 12480>>, 175, 225, 28, 48, 90),                          \* ヤマダ, above
      Tok(<<12479, 12490, 12459>>, 240, 290, 30, 50, 90) }                         \* タナカ, after

NextTransfer == ProcessDocument(TransferTokens, MaxTransferTokens) \/ ExtractInvoiceData

SpecTransfer == Init /\ [][NextTransfer]_vars

(***************************************************************************)
(* Properties of the table extraction (SpecTable)                          *)
(***************************************************************************)
\* the row has at least 2 distinct column keywords, DESCRIPTION and AMOUNT among them
HasCoreHeaders(row_blocks) ==
    /\ Cardinality(found_keywords_in_row(row_blocks)) >= 2
    /\ {"DESCRIPTION", "AMOUNT"} \subseteq found_keywords_in_row(row_blocks)

(* C2: if no candidate header row holds at least 2 distinct column         *)
(* keywords with both a DESCRIPTION and an AMOUNT keyword, the returned    *)
(* line_items is empty, whatever lies below the row.                       *)
C2_NoCoreHeaderNoItems ==
    (pc = "extracted"
        /\ \A i \in DOMAIN trace.potential_header_rows :
               ~HasCoreHeaders(trace.potential_header_rows[i]))
    => invoice_data.line_items = <<>>

\* the output keys under which the row's assignment holds the block
KeysHolding(assigned, block) ==
    {key \in OutputKeys : \E j \in DOMAIN assigned[key] : assigned[key][j] = block}

\* the row's assignment holds, in some column, a token whose text is a footer keyword
HasFooterToken(row, assigned) ==
    \E i \in DOMAIN row :
        /\ IsOneOf(Lower(Strip(row[i].text)), footer_keywords_lower)
        /\ KeysHolding(assigned, row[i]) # {}

(* C5: a row below the header in which some token's text is a footer       *)
(* keyword produces no line item, whichever column the token is assigned   *)
(* to.                                                                     *)
C5_FooterRowsNeverEmitted ==
    pc = "extracted" =>
        \A i \in DOMAIN trace.rows :
            HasFooterToken(trace.rows[i].row, trace.rows[i].assigned) => ~Emitted(trace.rows[i])

\* the anchor is one of the nearest to the block
IsNearest(block, anchors, a) ==
    \A j \in DOMAIN anchors : AnchorDistance(block, anchors[a]) <= AnchorDistance(block, anchors[j])

\* the block is farther than the tolerance from every anchor
BeyondEveryAnchor(block, anchors) ==
    \A j \in DOMAIN anchors :
        AnchorDistance(block, anchors[j]) > 100 * horizontal_assignment_tolerance

\* the block is strictly nearer than the tolerance to some anchor
NearSomeAnchor(block, anchors) ==
    \E j \in DOMAIN anchors :
        AnchorDistance(block, anchors[j]) < 100 * horizontal_assignment_tolerance

C7_TokenAssignment(assigned, block, anchors) ==
    /\ Cardinality(KeysHolding(assigned, block)) <= 1
    /\ \A key \in KeysHolding(assigned, block) :
          \E a \in DOMAIN anchors :
              /\ OutputKey(anchors[a].col) = key
              /\ IsNearest(block, anchors, a)
              /\ AnchorDistance(block, anchors[a]) <= 100 * horizontal_assignment_tolerance
    /\ NearSomeAnchor(block, anchors) => KeysHolding(assigned, block) # {}
    /\ BeyondEveryAnchor(block, anchors) => KeysHolding(assigned, block) = {}

(* C7: each token of a data row is assigned to at most one column, the one *)
(* of a nearest anchor, and only within the horizontal assignment          *)
(* tolerance; a token farther than the tolerance from every anchor is in   *)
(* no column, and a row of such tokens only has an item of empty fields.   *)
C7_NearestAnchorWithinTolerance ==
    pc = "extracted" =>
        \A i \in DOMAIN trace.rows :
            /\ \A k \in DOMAIN trace.rows[i].row :
                   C7_TokenAssignment(trace.rows[i].assigned, trace.rows[i].row[k],
                                      trace.header_column_anchors)
            /\ (\A k \in DOMAIN trace.rows[i].row :
                    BeyondEveryAnchor(trace.rows[i].row[k], trace.header_column_anchors))
               => \A key \in OutputKeys : trace.rows[i].item[key] = <<>>

\* a data row with a token in a column and a token beyond the tolerance of every anchor
C7_RowWithStrayToken ==
    /\ pc = "extracted"
    /\ \E i \in DOMAIN trace.rows :
          /\ \E k \in DOMAIN trace.rows[i].row :
                 KeysHolding(trace.rows[i].assigned, trace.rows[i].row[k]) # {}
          /\ \E k \in DOMAIN trace.rows[i].row :
                 /\ BeyondEveryAnchor(trace.rows[i].row[k], trace.header_column_anchors)
                 /\ KeysHolding(trace.rows[i].assigned, trace.rows[i].row[k]) = {}

\* every token's confidence is below the header-confidence threshold
AllBelowHeaderConfidence(results) ==
    \A i \in DOMAIN results : results[i].confidence < HeaderConfidence

(* C9: when every token's confidence is below the header-confidence        *)
(* threshold, extraction returns line_items = [] (the function has no      *)
(* raising path: the extraction step is defined on every token list).      *)
C9_LowConfidenceNoItems ==
    (pc = "extracted" /\ AllBelowHeaderConfidence(ocr_results)) => invoice_data.line_items = <<>>

\* low-confidence tokens that would be a table: both core headers and a number below them
C9_LowConfidenceTable ==
    /\ pc = "extracted"
    /\ AllBelowHeaderConfidence(ocr_results)
    /\ invoice_data.line_items = <<>>
    /\ \E i, j, k \in DOMAIN ocr_results :
          /\ "DESCRIPTION" \in Range(ColumnsOf(ocr_results[i].text))
          /\ "AMOUNT" \in Range(ColumnsOf(ocr_results[j].text))
          /\ ocr_results[k].top > ocr_results[j].bottom + buffer_below_header
          /\ ocr_results[k].confidence > BelowHeaderConfidence
          /\ FloatOk(RemoveCommas(Strip(ocr_results[k].text)))

(***************************************************************************)
(* Properties of the total amount (SpecTotal)                              *)
(***************************************************************************)
\* the value of an amount written in digits and commas (0 for the empty text)
AmountValue(amount) == IF RemoveCommas(amount) = <<>> THEN 0 ELSE DigitsToNat(RemoveCommas(amount))

RECURSIVE SumOfAmounts(_)
\* the sum of the line items' amounts
SumOfAmounts(items) ==
    IF items = <<>> THEN 0 ELSE AmountValue(Head(items).amount) + SumOfAmounts(Tail(items))

\* the candidate with the sum's leading digit prefixed, grouped in threes
WithLeadingDigitOf(sum, candidate) == Group3(<<Head(NatToDigits(sum))>> \o NatToDigits(candidate))

C4_DigitDropPatch(sum, candidate) ==
    (/\ sum >= 1250000
     /\ 100 * candidate < 75 * sum
     /\ Len(NatToDigits(candidate)) + 1 = Len(NatToDigits(sum)))
    => invoice_data.total_amount = WithLeadingDigitOf(sum, candidate)

(* C4: after a candidate total is resolved, if the sum of the line-item     *)
(* amounts exceeds the materiality floor (here: is at least the 1,250,000  *)
(* of the stated scenario), the candidate is below 75% of the sum and has  *)
(* exactly one digit fewer, the returned total_amount is the candidate     *)
(* with the sum's leading digit prefixed.                                  *)
C4_DigitDropPatched ==
    (pc = "extracted" /\ trace.total_search # <<>>)
    => C4_DigitDropPatch(SumOfAmounts(invoice_data.line_items),
                         AmountValue(Strip(trace.total_search[1].block.text)))

\* the block and the area share a region of the page
Intersects(b, area) ==
    /\ b.left < area.right /\ area.left < b.right
    /\ b.top < area.bottom /\ area.top < b.bottom

\* the search window of the keyword block, by the class of the keyword
WindowOf(by, keyword) ==
    IF by = "primary" THEN PrimarySearchArea(keyword) ELSE SecondarySearchArea(keyword)

C8_ChosenInWindow(search) ==
    /\ \E i \in DOMAIN ocr_results : ocr_results[i] = search.block
    /\ \E i \in DOMAIN ocr_results : ocr_results[i] = search.keyword
    /\ IF search.by = "primary" THEN IsPrimaryKeyword(search.keyword)
                                ELSE IsSecondaryKeyword(search.keyword)
    /\ search.area = WindowOf(search.by, search.keyword)
    /\ Intersects(search.block, search.area)
    /\ SelectSeq(invoice_data.total_amount, IsDigit) = SelectSeq(search.block.text, IsDigit)

(* C8: a total_amount resolved spatially comes from a token inside the      *)
(* keyword's search window; a numeric token outside the window is never    *)
(* selected, even when its confidence is the highest.                      *)
C8_TotalFromInsideWindow ==
    (pc = "extracted" /\ invoice_data.total_amount # None)
    => (trace.total_search # <<>> /\ C8_ChosenInWindow(trace.total_search[1]))

\* a total resolved while a numeric token outside the window has a higher confidence
C8_OutsideTokenMoreConfident ==
    /\ pc = "extracted"
    /\ invoice_data.total_amount # None
    /\ trace.total_search # <<>>
    /\ \E i \in DOMAIN ocr_results :
          /\ ~Intersects(ocr_results[i], trace.total_search[1].area)
          /\ number_content_pattern(ocr_results[i].text, PrimaryPrefixChars)
          /\ ocr_results[i].confidence > trace.total_search[1].block.confidence

(***************************************************************************)
(* Properties of the items and of the empty token list (SpecItems)         *)
(***************************************************************************)
\* the LineItem invariant where an absent field is ""
LineItemInvariant(item) ==
    \/ item.description # <<>>
    \/ item.amount # <<>>
    \/ (item.unit_price # <<>> /\ item.quantity # <<>>)

\* the LineItem invariant where an absent field is None
LineItemInvariantOrNone(item) ==
    \/ item.description # <<>>
    \/ item.amount # None
    \/ (item.unit_price # None /\ item.quantity # None)

\* C6: every line item of a returned result has a non-empty description, or an
\* amount, or both a unit price and a quantity; the item of a row with none of
\* these is not in the result.  In both programs.
C6_LineItemInvariant ==
    /\ pc = "extracted" =>
          /\ \A i \in DOMAIN invoice_data.line_items :
                LineItemInvariant(invoice_data.line_items[i])
          /\ \A i \in DOMAIN trace.rows :
                ~LineItemInvariant(trace.rows[i].item) => ~Emitted(trace.rows[i])
    /\ pc = "parsed" =>
          /\ \A i \in DOMAIN output.line_items :
                LineItemInvariantOrNone(output.line_items[i])
          /\ \A i \in DOMAIN parsed :
                ~LineItemInvariantOrNone(parsed[i].line_item) => ~parsed[i].emitted

\* an item is returned, and a row holding a quantity and nothing else is discarded
C6_QuantityAloneDiscarded ==
    /\ pc = "extracted"
    /\ invoice_data.line_items # <<>>
    /\ \E i \in DOMAIN trace.rows :
          /\ trace.rows[i].item.quantity # <<>>
          /\ ~LineItemInvariant(trace.rows[i].item)
          /\ ~Emitted(trace.rows[i])

AllNull ==
    [invoice_number |-> None, invoice_date |-> None, due_date |-> None, vendor_name |-> None,
     total_amount |-> None, bank_name |-> None, branch_name |-> None, account_type |-> None,
     account_number |-> None, account_holder |-> None, line_items |-> <<>>]

AllNullOutput ==
    [invoice_number |-> None, invoice_date |-> None, due_date |-> None, vendor_name |-> None,
     total_amount |-> None, line_items |-> <<>>]

\* C10: on the empty token list extract_invoice_data returns the record whose
\* header fields are all None and whose line_items is [], and so does
\* parse_japanese_invoice, whatever the floating point does; no error is raised.
C10_EmptyTokenList ==
    /\ (pc = "extracted" /\ ocr_results = <<>>) => invoice_data = AllNull
    /\ \A fp \in FloatingPoint : parse_japanese_invoice(<<>>, fp) = AllNullOutput

\* the extraction has run on the empty token list
C10_ExtractedFromNothing ==
    /\ pc = "extracted"
    /\ ocr_results = <<>>
    /\ invoice_data.line_items = <<>>
    /\ invoice_data.vendor_name = None

(***************************************************************************)
(* Properties of the row clustering (SpecRows)                             *)
(***************************************************************************)
Injections(n) == {p \in [1..n -> 1..n] : \A i, j \in 1..n : i # j => p[i] # p[j]}

\* the lists with the members of s, in every order
Shuffles(s) == {[i \in 1..Len(s) |-> s[p[i]]] : p \in Injections(Len(s))}

\* a grouping into rows, as the set of the rows' member sets
Grouping(rows) == {Range(rows[i]) : i \in DOMAIN rows}

\* the rows Step 4 makes of the tokens, in the other program
RowsBelowHeader(results) ==
    ItemRows(text_blocks_below_header(results,
                 RowBottomY(main_header_row(potential_header_rows(results)))))

ShuffledAlike(extracted) ==
    \A s \in Shuffles(extracted) : Grouping(clustered_rows(s)) = Grouping(clustered_rows(extracted))

ShuffledAlikeBelowHeader(results) ==
    \A s \in Shuffles(results) :
        Grouping(RowsBelowHeader(SortByTopLeft(s))) = Grouping(RowsBelowHeader(results))

\* C1: whatever the order of the input tokens, sorting them by vertical
\* position and clustering them gives the same rows, as sets of tokens.  In
\* both programs.
C1_ClusteringOrderIndependent ==
    /\ pc = "parsed" => ShuffledAlike(extracted_text)
    /\ pc = "extracted" => ShuffledAlikeBelowHeader(ocr_results)

(***************************************************************************)
(* Properties of the reconciliation (SpecReconcile)                        *)
(***************************************************************************)
Number(s) == Float(RemoveCommas(s))

FractionDigits(g, a) == Max(Len(g.frac), Len(a.frac))

\* 200 * |d * g - a| over Pow10(FractionDigits(g, a)), d of two fraction digits at most
ProductGap(d, g, a) ==
    2 * Abs(Scaled(d, 2) * Scaled(g, FractionDigits(g, a)) - 100 * Scaled(a, FractionDigits(g, a)))

\* the reconciliation derived the unit price of the row
DerivedUnitPrice(r) == r.emitted /\ r.assigned.unit_price = None /\ r.line_item.unit_price # None

\* the reconciliation derived the quantity of the row
DerivedQuantity(r) == r.emitted /\ r.assigned.quantity = None /\ r.line_item.quantity # None

\* |quantity * unit_price - amount| <= 1/2: the amount is the rounded product
AmountIsRoundedProduct(derived, given, amount) ==
    ProductGap(Number(derived), Number(given), Number(amount))
        <= 100 * Pow10(FractionDigits(Number(given), Number(amount)))

\* |quantity * unit_price - amount| <= 0.005 * given
ProductWithinRounding(derived, given, amount) ==
    ProductGap(Number(derived), Number(given), Number(amount))
        <= Scaled(Number(given), FractionDigits(Number(given), Number(amount)))

\* C3 as stated: where the reconciliation derived one of amount, unit_price and
\* quantity from the two the row gave, amount = round(quantity * unit_price),
\* the derived value as formatted.
C3_ReconciliationLaw ==
    pc = "parsed" =>
       \A i \in DOMAIN parsed :
          /\ DerivedUnitPrice(parsed[i]) =>
                AmountIsRoundedProduct(parsed[i].line_item.unit_price,
                                       parsed[i].line_item.quantity, parsed[i].line_item.amount)
          /\ DerivedQuantity(parsed[i]) =>
                AmountIsRoundedProduct(parsed[i].line_item.quantity,
                                       parsed[i].line_item.unit_price, parsed[i].line_item.amount)

\* C3 amended: where the reconciliation derived the unit price or the quantity,
\* quantity * unit_price and the amount differ by at most 0.005 times the
\* factor the row gave, the derived value as formatted.
C3_ReconciliationWithinRounding ==
    pc = "parsed" =>
       \A i \in DOMAIN parsed :
          /\ DerivedUnitPrice(parsed[i]) =>
                ProductWithinRounding(parsed[i].line_item.unit_price,
                                      parsed[i].line_item.quantity, parsed[i].line_item.amount)
          /\ DerivedQuantity(parsed[i]) =>
                ProductWithinRounding(parsed[i].line_item.quantity,
                                      parsed[i].line_item.unit_price, parsed[i].line_item.amount)

\* a quantity derived to two decimals whose product is not the amount
C3_QuantityToTwoDecimals ==
    /\ pc = "parsed"
    /\ \E i \in DOMAIN parsed :
          /\ DerivedQuantity(parsed[i])
          /\ Contains(parsed[i].line_item.quantity, <<46>>)
          /\ ~AmountIsRoundedProduct(parsed[i].line_item.quantity,
                                     parsed[i].line_item.unit_price, parsed[i].line_item.amount)

(***************************************************************************)
(* Properties of clean_amount (SpecClean)                                  *)
(***************************************************************************)
\* C11: clean_amount is idempotent: clean_amount(clean_amount(x)) is
\* clean_amount(x) for every string x, the strings it cleans to None included.
C11_CleanAmountIdempotent ==
    Len(clean_results) = 2 => clean_results[2] = clean_results[1]

\* cleaned twice, the first call having taken symbols off and left a number
C11_CleanedTwice ==
    /\ Len(clean_results) = 2
    /\ clean_results[1] # None
    /\ clean_results[1] # clean_input
    /\ \E i \in DOMAIN clean_input : IsCurrencyOrSpace(clean_input[i])

(***************************************************************************)
(* Properties of the header patterns (SpecHeader)                          *)
(***************************************************************************)
\* value is the group of the first of the matches there is, in the listed
\* order, or is None when there is none
FirstInListedOrder(matches, value) ==
    IF \A i \in DOMAIN matches : matches[i] = <<>> THEN value = None
    ELSE \E k \in DOMAIN matches :
            /\ matches[k] # <<>>
            /\ \A j \in 1..(k - 1) : matches[j] = <<>>
            /\ value = Strip(matches[k][1])

\* where a label-anchored pattern matches, value is the group of one of them
AnchoredNotPreempted(anchored, value) ==
    (\E i \in DOMAIN anchored : anchored[i] # <<>>)
        => \E i \in DOMAIN anchored : anchored[i] # <<>> /\ value = Strip(anchored[i][1])

C12_InvoiceNumber(text, value) ==
    /\ FirstInListedOrder(<<invoice_number_pattern_1(text), invoice_number_pattern_2(text),
                            invoice_number_pattern_3(text)>>, value)
    /\ AnchoredNotPreempted(<<invoice_number_pattern_2(text), invoice_number_pattern_3(text)>>,
                            value)

C12_InvoiceDate(text, value) ==
    /\ labelled_date_pattern(text, invoice_date_labels) # <<>> \/ invoice_date_pattern_2(text) # <<>>
          => FirstInListedOrder(<<labelled_date_pattern(text, invoice_date_labels),
                                  invoice_date_pattern_2(text)>>, value)
    /\ AnchoredNotPreempted(<<labelled_date_pattern(text, invoice_date_labels)>>, value)

C12_VendorName(text, value) ==
    FirstInListedOrder([k \in 1..7 |-> fast_vendor_pattern(text, k)], value)

\* C12: each header field has the value of the first pattern of its list that
\* matches, and a pattern behind a label is listed before the patterns without
\* one, so that where a pattern behind a label matches the field has its value.
C12_FirstPatternAnchoredFirst ==
    pc = "parsed" =>
        /\ C12_InvoiceNumber(all_text(extracted_text), output.invoice_number)
        /\ C12_InvoiceDate(all_text(extracted_text), output.invoice_date)
        /\ C12_VendorName(all_text(extracted_text), output.vendor_name)

(***************************************************************************)
(* Properties of the recognition engine (SpecEngine)                       *)
(***************************************************************************)
\* C13: in one process, whatever the documents processed and however the
\* threads' initializations interleave, the engine is constructed at most
\* once, and every readtext call is on that one engine.
C13_EngineConstructedOnce ==
    /\ engines <= 1
    /\ Cardinality(used) <= 1

(***************************************************************************)
(* Properties of run_extraction's outcomes (SpecRun)                       *)
(***************************************************************************)
\* the file is missing, of an unsupported extension, or without pages
InputError(f) == images(f) = None \/ images(f) = <<0>>

\* what run_extraction returns for the file path on an input error, the engine up
InputErrorOutcomes(path) ==
    {ErrorResult(f) : f \in {g \in Files : g.extension = path /\ InputError(g)}}

\* C14: the outcome of a recognition-engine failure differs from the outcome of
\* every input error (a missing file, an unsupported extension, no pages), and
\* neither outcome carries invoice data.
C14_EngineFailureDistinct ==
    (pc = "failed" /\ reader_raises /\ ~InputError(file)) =>
        /\ result.status = "error"
        /\ "invoice_data" \notin DOMAIN result
        /\ result \notin InputErrorOutcomes(file.extension)

(***************************************************************************)
(* Properties of the token filter (SpecFilter)                             *)
(***************************************************************************)
\* a date alone: YYYY, a separator, MM, a separator, DD and an optional 日,
\* the separators /, - or the kanji of the year and of the month
SeparatedDate(text) ==
    \E a \in 1..2 : \E b \in 1..2 : \E suffix \in 0..1 :
        /\ Len(text) = 4 + 1 + a + 1 + b + suffix
        /\ IsRun(text, 1, 4, "digit") /\ text[5] \in {47, 45, 24180}
        /\ IsRun(text, 6, a, "digit") /\ text[6 + a] \in {47, 45, 26376}
        /\ IsRun(text, 7 + a, b, "digit")
        /\ suffix = 1 => text[Len(text)] = 26085

\* the filter is to remove a token of this trimmed text
ToBeFiltered(text) ==
    \/ Len(text) = 0 \/ IsOneOf(text, noise_symbols)
    \/ ContainsAny(text, skip_terms_general)
    \/ IsOneOf(text, column_headers)
    \/ SeparatedDate(text) \/ IsBareTime(text)

\* C15: a token whose trimmed text is empty or a noise symbol, contains a
\* boilerplate term, is a column header or is a date or a time alone is
\* removed by the filter: it is in no row, and no line item has text of it.
C15_FilteredTokensInNoItem ==
    pc = "parsed" =>
        \A t \in Range(extracted_text) :
            ToBeFiltered(Strip(t.text)) =>
                /\ t \notin Range(relevant_items(extracted_text))
                /\ \A i \in DOMAIN parsed : t \notin Range(parsed[i].row_items)

(***************************************************************************)
(* Properties of the row clustering (SpecCluster)                          *)
(***************************************************************************)
\* |token.yCenter - row.yCenter| <= tolerance, row.yCenter the mean of the row's centres
JoinsRow(token, row, tolerance) ==
    Abs(Len(row) * YCenter2(token) - SumYCenter2(row)) <= 2 * Len(row) * tolerance

RECURSIVE RowsWithinTolerance(_, _, _)
\* the rows of tokens taken in order, a token joining the last row exactly when JoinsRow
RowsWithinTolerance(tokens, rows, tolerance) ==
    IF tokens = <<>> THEN rows
    ELSE IF rows # <<>> /\ JoinsRow(Head(tokens), rows[Len(rows)], tolerance)
    THEN RowsWithinTolerance(Tail(tokens),
             [rows EXCEPT ![Len(rows)] = Append(rows[Len(rows)], Head(tokens))], tolerance)
    ELSE RowsWithinTolerance(Tail(tokens), Append(rows, <<Head(tokens)>>), tolerance)

C16_RowsOfExtraction ==
    (pc = "extracted" /\ trace.header_column_anchors # <<>>) =>
        {Range(trace.rows[i].row) : i \in DOMAIN trace.rows}
            = Grouping(RowsWithinTolerance(
                  SortByTop(text_blocks_below_header(ocr_results, RowBottomY(trace.main_header_row))),
                  <<>>, y_threshold_row))

C16_RowsOfParse ==
    pc = "parsed" =>
        {Range(parsed[i].row_items) : i \in DOMAIN parsed}
            = Grouping(RowsWithinTolerance(relevant_items(extracted_text), <<>>,
                                           row_vertical_tolerance))

\* C16: the rows are those made by taking the tokens from top to bottom and
\* appending a token to the current row exactly when its y centre is within
\* the vertical tolerance, the tolerance itself included, of the mean of the
\* y centres of the row's tokens, and otherwise starting a new row with it.
C16_JoinsRowWithinTolerance == C16_RowsOfExtraction /\ C16_RowsOfParse

(***************************************************************************)
(* Properties of the account holder (SpecBank)                             *)
(***************************************************************************)
\* the candidates of the highest confidence
MostConfident(cands) == {c \in cands : \A d \in cands : c.confidence >= d.confidence}

\* of those, the ones horizontally nearest to the right edge of the number's token
NearestToRightEdge(cands, acc) ==
    {c \in cands : \A d \in cands : Abs(c.left - acc.right) <= Abs(d.left - acc.right)}

HolderChosenFrom(cands, acc) ==
    cands # {} =>
        \E c \in NearestToRightEdge(MostConfident(cands), acc) :
            invoice_data.account_holder = Strip(c.text)

HolderChosenNear(results, bbox) ==
    bbox # <<>> =>
        HolderChosenFrom(Range(candidate_names(results, NameSearchArea(bbox[1]))), bbox[1])

\* the holder is searched for around the number's token: no name follows the number in the text
SpatialSearchDone(results, block, number) ==
    /\ number # None
    /\ account_holder_match(block, number) = None
    /\ account_number_bbox(results, number) # <<>>
    /\ candidate_names(results, NameSearchArea(account_number_bbox(results, number)[1])) # <<>>

HolderChosenIn(results, block) ==
    (block # <<>> /\ SpatialSearchDone(results, block[1], invoice_data.account_number)) =>
        HolderChosenNear(results, account_number_bbox(results, invoice_data.account_number))

\* C17: of the account-holder candidates in the search window the one of the
\* highest confidence is chosen, and of several of that confidence the one
\* horizontally nearest to the right edge of the account number's token.
C17_HolderMostConfidentThenNearest ==
    pc = "extracted" => HolderChosenIn(ocr_results, bank_details_block(ocr_results))

(***************************************************************************)
(* Properties of the date fallback (SpecHeader)                            *)
(***************************************************************************)
\* the index after the month's digits of a date-like text
AfterMonth(date) == RunEnd(date, 6, "digit") + 1

\* year, month and day of a date-like text as one number, yyyymmdd
DateNumber(date) ==
    10000 * DigitsToNat(SubSeq(date, 1, 4))
        + 100 * DigitsToNat(SubSeq(date, 6, AfterMonth(date) - 1))
        + DigitsToNat(SubSeq(date, AfterMonth(date) + 1,
                             RunEnd(date, AfterMonth(date) + 1, "digit")))

Earliest(dates) == CHOOSE d \in dates : \A o \in dates : DateNumber(d) <= DateNumber(o)

Latest(dates) == CHOOSE d \in dates : \A o \in dates : DateNumber(d) >= DateNumber(o)

\* the patterns left both date fields unset and the text has two different dates
FallbackOfBothDates(text) ==
    /\ IsUnset(pattern_invoice_date(text)) /\ IsUnset(pattern_due_date(text))
    /\ Cardinality({DateNumber(d) : d \in Range(date_matches(text, 1))}) >= 2

EarliestAndLatest(dates) ==
    /\ DateNumber(output.invoice_date) = DateNumber(Earliest(dates))
    /\ DateNumber(output.due_date) = DateNumber(Latest(dates))
    /\ DateNumber(output.invoice_date) <= DateNumber(output.due_date)

\* C18: where the patterns leave the date fields unset, the fallback collects
\* the date-like substrings of the text, without duplicates and in ascending
\* order, and invoice_date is the earliest and due_date the latest of them:
\* invoice_date <= due_date, in whatever order the dates stand in the text.
C18_FallbackEarliestAndLatest ==
    (pc = "parsed" /\ FallbackOfBothDates(all_text(extracted_text))) =>
        EarliestAndLatest(Range(date_matches(all_text(extracted_text), 1)))

(***************************************************************************)
(* Properties of the two total labels (SpecTotal)                          *)
(***************************************************************************)
\* the numeric candidates in the window of the primary keyword block, the most
\* confident token with the primary label above the confidence floor
InPrimaryWindow(results, kw) ==
    IF kw = <<>> THEN {} ELSE Range(PrimaryCandidates(results, PrimarySearchArea(kw[1])))

TotalTakenFrom(search, by, candidates) ==
    /\ search # <<>>
    /\ search[1].by = by
    /\ search[1].block \in candidates
    /\ invoice_data.total_amount # None =>
           SelectSeq(invoice_data.total_amount, IsDigit) = SelectSeq(search[1].block.text, IsDigit)

PrimaryPreferred(search, in_primary) ==
    /\ in_primary # {} => TotalTakenFrom(search, "primary", in_primary)
    /\ (search # <<>> /\ search[1].by = "secondary") => in_primary = {}
    /\ (in_primary = {} /\ search # <<>>) => search[1].by = "secondary"

DetectedIn(row_blocks) ==
    DetectedAnchors(sorted_main_header_bboxes(current_row_bboxes(row_blocks)))

SynthesizedColumns == {"UNIT PRICE", "QUANTITY", "UNIT"}

\* x = from + ratio * (to - from), the ratio in tenths
AtRatio(x, from, to, tenths) == 10 * x = 10 * from + tenths * (to - from)

\* each column has one anchor, and a detected column the x read from its header
DetectedKept(anchors, detected) ==
    /\ \A i, j \in DOMAIN anchors : anchors[i].col = anchors[j].col => i = j
    /\ \A i \in DOMAIN detected :
          HasAnchor(anchors, detected[i].col) /\ AnchorX(anchors, detected[i].col) = detected[i].x

MissingSynthesized(anchors, detected, d, a) ==
    /\ \A col \in SynthesizedColumns : HasAnchor(anchors, col)
    /\ ~HasAnchor(detected, "UNIT PRICE") => AtRatio(AnchorX(anchors, "UNIT PRICE"), d, a, 4)
    /\ ~HasAnchor(detected, "QUANTITY") =>
           AtRatio(AnchorX(anchors, "QUANTITY"), AnchorX(anchors, "UNIT PRICE"), a, 4)
    /\ ~HasAnchor(detected, "UNIT") =>
           AtRatio(AnchorX(anchors, "UNIT"), AnchorX(anchors, "QUANTITY"), a, 5)

AllThreeSynthesized(detected) == \A col \in SynthesizedColumns : ~HasAnchor(detected, col)

InCanonicalOrder(anchors, d, a) ==
    /\ d < AnchorX(anchors, "UNIT PRICE")
    /\ AnchorX(anchors, "UNIT PRICE") < AnchorX(anchors, "QUANTITY")
    /\ AnchorX(anchors, "QUANTITY") < AnchorX(anchors, "UNIT")
    /\ AnchorX(anchors, "UNIT") < a

AnchorsSynthesized(anchors, detected) ==
    /\ DetectedKept(anchors, detected)
    /\ (HasAnchor(detected, "DESCRIPTION") /\ HasAnchor(detected, "AMOUNT")) =>
          /\ MissingSynthesized(anchors, detected, AnchorX(detected, "DESCRIPTION"),
                                AnchorX(detected, "AMOUNT"))
          /\ (/\ AllThreeSynthesized(detected)
              /\ AnchorX(detected, "DESCRIPTION") < AnchorX(detected, "AMOUNT"))
             => InCanonicalOrder(anchors, AnchorX(detected, "DESCRIPTION"),
                                 AnchorX(detected, "AMOUNT"))

\* C20: with the anchors d of DESCRIPTION and a of AMOUNT both detected, each
\* anchor missing among UNIT PRICE, QUANTITY and UNIT is synthesized: UNIT
\* PRICE = d + 0.4 (a - d), QUANTITY = UNIT PRICE + 0.4 (a - UNIT PRICE), UNIT
\* the midpoint of QUANTITY and a.  An anchor detected from a header token is
\* never overwritten, and where d < a and all three are synthesized
\* d < UNIT PRICE < QUANTITY < UNIT < a.
C20_MissingAnchorsSynthesized ==
    pc = "extracted" =>
        AnchorsSynthesized(trace.header_column_anchors, DetectedIn(trace.main_header_row))

\* DESCRIPTION left of AMOUNT, both detected, and the three columns between synthesized
C20_AllThreeSynthesized ==
    /\ pc = "extracted"
    /\ HasAnchor(DetectedIn(trace.main_header_row), "DESCRIPTION")
    /\ HasAnchor(DetectedIn(trace.main_header_row), "AMOUNT")
    /\ AllThreeSynthesized(DetectedIn(trace.main_header_row))
    /\ AnchorX(DetectedIn(trace.main_header_row), "DESCRIPTION")
           < AnchorX(DetectedIn(trace.main_header_row), "AMOUNT")
    /\ Len(trace.header_column_anchors) = 5

(***************************************************************************)
(* Properties of the blocks below the header (SpecBelow)                   *)
(***************************************************************************)
\* the rows whose items are in line_items
EmittedRows(processed) ==
    {i \in DOMAIN processed : processed[i].is_valid_item /\ ~processed[i].is_footer_row}

\* the token is strictly below the header row's bottom edge plus the buffer
StrictlyBelowHeader(token, header_row) ==
    /\ token \notin Range(header_row)
    /\ token.top > RowBottomY(header_row) + buffer_below_header

\* C21: only tokens strictly below the bottom edge of the selected header row
\* plus the buffer contribute to line items: no token of the header row and no
\* token whose top is at or above the header's bottom plus the buffer is in a
\* field of an emitted line item.
C21_ItemsFromBelowHeader ==
    pc = "extracted" =>
        \A i \in EmittedRows(trace.rows) :
            \A token \in Range(trace.rows[i].row) :
                StrictlyBelowHeader(token, trace.main_header_row)

\* an item emitted while a token stands exactly at the header's bottom plus the buffer
C21_TokenAtTheBuffer ==
    /\ pc = "extracted"
    /\ invoice_data.line_items # <<>>
    /\ EmittedRows(trace.rows) # {}
    /\ \E k \in DOMAIN ocr_results :
          /\ ocr_results[k].top = RowBottomY(trace.main_header_row) + buffer_below_header
          /\ ocr_results[k].confidence > BelowHeaderConfidence

(***************************************************************************)
(* Properties of the derivation of a missing number (SpecNumeric)          *)
(***************************************************************************)
NumberFields == {"amount", "unit_price", "quantity"}

AbsentFields(item) == {f \in NumberFields : item[f] = None}

\* a field has a value after the reconciliation that it had not before
DerivedFields(r) == {f \in NumberFields : r.line_item[f] # r.assigned[f]}

\* the text is a number and the number is zero
IsZeroNumber(s) == s # None /\ FloatOk(RemoveCommas(s)) /\ IsZero(Float(RemoveCommas(s)))

\* the number to divide by is zero: the quantity for the unit price, the unit price for the quantity
ZeroDivisor(item) ==
    \/ item.unit_price = None /\ IsZeroNumber(item.quantity)
    \/ item.quantity = None /\ IsZeroNumber(item.unit_price)

\* a number of the row that float() does not read
NonNumericInput(r) ==
    \E k \in DOMAIN cleaned_numbers(r.numbers_in_row) :
        ~FloatOk(RemoveCommas(cleaned_numbers(r.numbers_in_row)[k]))

DerivedOnlyWhenOneAbsent(r) ==
    DerivedFields(r) # {} =>
        (Cardinality(AbsentFields(r.assigned)) = 1 /\ DerivedFields(r) = AbsentFields(r.assigned))

LeftUnset(r) ==
    (ZeroDivisor(r.assigned) \/ NonNumericInput(r)) => (~r.error /\ r.line_item = r.assigned)

C22_RowReconciled(r) == ~r.skipped => (~r.error /\ DerivedOnlyWhenOneAbsent(r) /\ LeftUnset(r))

\* C22: the reconciliation derives a number only when exactly one of amount,
\* unit_price and quantity is absent; where the divisor is zero or a number of
\* the row is not numeric the absent field stays unset and the other fields of
\* the item are unchanged, and no exception leaves the parsing of the line items.
C22_DerivedOnlyWhenOneAbsent ==
    pc = "parsed" => \A i \in DOMAIN parsed : C22_RowReconciled(parsed[i])

(***************************************************************************)
(* Properties of clean_amount on long numbers (SpecLongAmount)             *)
(***************************************************************************)
\* the string without currency symbols and with digits, commas and points only
StrippedResult(s) == NumberCharsOf(WithoutCurrency(s))

\* 7 or more digits, a leading 1 and a comma
HasLeadingArtifact(stripped) ==
    /\ Len(SelectSeq(stripped, IsDigit)) >= 7
    /\ Head(stripped) = 49
    /\ \E i \in DOMAIN stripped : stripped[i] = 44

\* C23: clean_amount takes a leading 1 for a recognition artifact: where the
\* stripped result has 7 or more digits, starts with 1 and contains a comma,
\* the string returned is that result without its leading 1.
C23_LeadingOneDropped ==
    (Len(clean_results) >= 1 /\ HasLeadingArtifact(StrippedResult(clean_input))) =>
        clean_results[1] = Tail(StrippedResult(clean_input))

(***************************************************************************)
(* Properties of the rows as a partition (SpecCluster)                     *)
(***************************************************************************)
RECURSIVE TokensBefore(_, _)
\* the number of tokens in the rows before row i
TokensBefore(rows, i) == IF i = 1 THEN 0 ELSE TokensBefore(rows, i - 1) + Len(rows[i - 1])

\* row i holds the tokens of one run of the sorted sequence, each once
ContiguousRun(sorted, rows, i) ==
    /\ rows[i] # <<>>
    /\ TokensBefore(rows, i) + Len(rows[i]) <= Len(sorted)
    /\ Cardinality(Range(rows[i])) = Len(rows[i])
    /\ Range(rows[i])
           = Range(SubSeq(sorted, TokensBefore(rows, i) + 1, TokensBefore(rows, i) + Len(rows[i])))

\* the rows are the runs of the sorted sequence, one after the other, to its end
PartitionInOrder(sorted, rows) ==
    /\ \A i \in DOMAIN rows : ContiguousRun(sorted, rows, i)
    /\ TokensBefore(rows, Len(rows) + 1) = Len(sorted)
    /\ \A t \in Range(sorted) : Cardinality({i \in DOMAIN rows : t \in Range(rows[i])}) = 1
    /\ \A i, j \in DOMAIN rows :
          i < j => \A s \in Range(rows[i]) : \A t \in Range(rows[j]) : s.top <= t.top

\* the line items are those of the emitted rows, in the order of the rows
ItemsInRowOrder(items, emitted_items) ==
    \E pick \in [DOMAIN items -> DOMAIN emitted_items] :
        /\ \A k \in DOMAIN items : items[k] = emitted_items[pick[k]]
        /\ \A k, l \in DOMAIN items : k < l => pick[k] < pick[l]

C24_RowsOfExtraction ==
    (pc = "extracted" /\ trace.header_column_anchors # <<>>) =>
        /\ PartitionInOrder(
               SortByTop(text_blocks_below_header(ocr_results, RowBottomY(trace.main_header_row))),
               [i \in DOMAIN trace.rows |-> trace.rows[i].row])
        /\ ItemsInRowOrder(invoice_data.line_items,
                           [i \in DOMAIN trace.rows |-> trace.rows[i].item])

C24_RowsOfParse ==
    pc = "parsed" =>
        /\ PartitionInOrder(relevant_items(extracted_text),
                            [i \in DOMAIN parsed |-> parsed[i].row_items])
        /\ ItemsInRowOrder(output.line_items, [i \in DOMAIN parsed |-> parsed[i].line_item])

\* C24: the rows are a partition of the tokens that enter the clustering and
\* keep their sorted order: each token is in exactly one row, each row is a
\* run of consecutive tokens of the sequence sorted from top to bottom, and
\* the rows, and so the line items, follow one another from top to bottom.
C24_RowsPartitionInOrder == C24_RowsOfExtraction /\ C24_RowsOfParse

\* two rows, one of them of several tokens
C24_SeveralRows ==
    /\ pc = "parsed"
    /\ Len(parsed) >= 2
    /\ \E i \in DOMAIN parsed : Len(parsed[i].row_items) >= 2
    /\ Len(output.line_items) >= 1

(***************************************************************************)
(* Properties of the bank fields (SpecTransfer)                            *)
(***************************************************************************)
BankFieldNames == {"bank_name", "branch_name", "account_type", "account_number", "account_holder"}

\* the joined text has the bank-transfer label
HasTransferLabel(text) == Contains(text, <<25391, 36796, 20808>>)            \* 振込先

\* C25: in every result of extract_invoice_data account_holder is set only
\* where account_number is, and bank_name, branch_name, account_type,
\* account_number and account_holder are all null where the joined text has no
\* bank-transfer label.
C25_BankFieldsBehindLabel ==
    pc = "extracted" =>
        /\ invoice_data.account_holder # None => invoice_data.account_number # None
        /\ ~HasTransferLabel(full_text(ocr_results)) =>
               \A f \in BankFieldNames : invoice_data[f] = None

\* a bank and an account number in the text without the label before them
C25_BankWithoutLabel ==
    /\ pc = "extracted"
    /\ ~HasTransferLabel(full_text(ocr_results))
    /\ bank_name_match(full_text(ocr_results)) # None
    /\ account_number_match(full_text(ocr_results)) # None
    /\ invoice_data.account_number = None

====
